---------------------------- MODULE Spec2Model ----------------------------
(***************************************************************************)
(* Verification model of the federated actor-learning repository:         *)
(*   - the LWWMap CRDT                      (src/fl/crdt.py)               *)
(*   - the actor runtime: tell, mailbox, receive loop, stop                *)
(*                                          (src/actor/actor_system.py)    *)
(*   - the supervisor: health loop, restart (src/actor/supervisor.py)      *)
(*   - the round coordinator (Provider)     (src/fl/provider.py)           *)
(* Each subsystem has its own specification (SpecCrdt, SpecRt, SpecSup,    *)
(* SpecProv) over its own variables; the variables of the other            *)
(* subsystems stay at their initial values.                                *)
(***************************************************************************)
EXTENDS Integers, Sequences, FiniteSets, TLC

VARIABLES
    \* ---- LWWMap replicas (src/fl/crdt.py)
    replicas,       \* replica id -> [replica_id, clock, data, tombstones]
    deltas,         \* every delta returned by a put()/delete() so far
    observed,       \* replica id -> deltas it issued locally or merged
    merges,         \* replica id -> number of merge() calls made so far
    \* ---- actor runtime: one local actor and its senders (src/actor/actor_system.py)
    ready,          \* the event loop's queue of runnable task steps, oldest first
    mailbox,        \* Mailbox._queue of the actor: messages, oldest first
    putters,        \* delivery tasks suspended in Mailbox.put on a full mailbox
    loopPc,         \* where the actor's _run_actor task stands
    active,         \* behaviour invocations of the actor in progress
    processed,      \* messages the behaviour was invoked on, in order
    told,           \* sender -> number of messages it has passed to tell()
    \* ---- round coordinator and its peers (src/fl/provider.py, src/fl/worker.py,
    \*      src/fl/evaluator.py)
    prov,           \* the Provider actor's fields
    inbox,          \* sender -> messages on their way to the provider, oldest first
    wbox,           \* worker -> messages on their way to that worker, oldest first
    toAgg,          \* messages on their way to the aggregator, oldest first
    toEval,         \* messages on their way to the evaluator, oldest first
    regs,           \* registrations sent so far by workers, aggregator, evaluator
    forwarded,      \* every AggregateRound the provider has told to the aggregator
    \* ---- supervisor and the actor registry (src/actor/supervisor.py,
    \*      src/actor/actor_system.py)
    registry,       \* child id -> instance in ActorSystem._actors, 0 if none
    instances,      \* number of child actor objects constructed so far
    stops,          \* the _stop_actor tasks in progress
    stopTasks,      \* number of _stop_actor tasks created so far
    supBox,         \* the supervisor's mailbox, oldest first
    supPc,          \* where the supervisor's behaviour stands
    monitored,      \* Supervisor._monitored_children: id -> [status, failed_checks]
    order,          \* the key order of _monitored_children
    pending_acks,   \* Supervisor._pending_acks: id -> state of its Event
    ctxChildren,    \* the supervisor's context.children
    pings,          \* child id -> HealthPing messages told to it so far
    healthChecks,   \* iterations of the health loop completed so far
    failures,       \* behaviour exceptions raised by children so far
    restarts,       \* every completed _restart_child: child, old and new instance
    \* ---- convergence detection of a gossip peer (src/fl/gossip_peer.py)
    conv,           \* a peer's convergence fields: [convergence_count, last_delta_norm]
    convSamples,    \* the delta_norm values passed to _update_convergence so far
    \* ---- gossip peers (src/fl/gossip_peer.py)
    gcfg,           \* peer -> its GossipConfig and the host of its ActorSystem
    peer,           \* peer -> the GossipPeer actor's fields
    net,            \* peer -> GossipState messages sent to it and not yet handled, oldest first
    sent,           \* peer -> number of GossipState messages it has told to peers
    gossips,        \* peer -> iterations of its gossip loop so far
    \* ---- send and receive paths of an ActorSystem (src/actor/actor_system.py)
    send_middleware, \* ActorSystem._send_middleware
    receive_middleware, \* ActorSystem._receive_middleware
    tells,          \* the tell() calls so far: target and Ping.count
    sendTasks,      \* the _deliver_local / _send_remote task of each tell() call
    remote_connections, \* ActorSystem._remote_connections: address -> cached connection
    dials,          \* address -> open_connection calls so far
    raised,         \* address -> a dial, write or drain to it has raised
    written,        \* frames written to remote connections, oldest first
    box,            \* mailbox of the local actor
    handled,        \* messages passed to the local actor's behaviour
    skipped,        \* messages the receive interceptors dropped
    \* ---- registry and actor tree of an ActorSystem (src/actor/actor_system.py)
    actors,         \* ActorSystem._actors: id -> actor
    mailboxes,      \* ActorSystem._mailboxes: id -> mailbox
    tasks,          \* ActorSystem._tasks: id -> task of _run_actor
    made,           \* actors, mailboxes and tasks constructed so far
    kids,           \* id -> keys of context.children of the actor registered under it
    cancelled,      \* tasks that were cancelled
    ended,          \* cancelled tasks that have ended
    post_stopped,   \* actors whose post_stop was invoked
    stopTask,       \* the _stop_actor task: its position and its stack of frames
    stopCalls,      \* stop() calls so far
    actorOfCalls,   \* the actor_of calls so far: id, and whether it was registered
    \* ---- become / unbecome (src/actor/actor_system.py, src/tests/fixtures.py)
    stateful,       \* the StatefulActor: its state field and _behavior
    sfTold,         \* messages told to it, in tell order
    sfReady,        \* messages of the _deliver_local tasks not yet run
    sfBox,          \* its mailbox
    sfLog,          \* the behaviour invocations so far: message, function called, swap it made
    \* ---- LWWMap replicas exchanging deltas and snapshots (src/fl/crdt.py)
    lmap,           \* replica id -> LWWMap
    lpub,           \* deltas returned by put()/delete() so far
    lsnaps,         \* snapshots taken with to_dict() so far
    lmerges,        \* merge()/merge_state() calls so far
    lastOp,         \* the latest local put/delete: replica before the call, and the get that followed
    \* ---- PNCounter replicas exchanging snapshots (src/fl/crdt.py)
    pn,             \* replica id -> PNCounter
    pnsnaps,        \* snapshots taken with to_dict() so far
    pnmerges,       \* merge() calls so far
    incs,           \* replica id -> increment() calls made on it
    decs,           \* replica id -> decrement() calls made on it
    heard,          \* replica r -> replica q -> the greatest own counts <<P, N>> of q among the snapshots of q that r merged
    \* ---- GossipReporter (src/fl/gossip_reporter.py)
    peer_status,    \* GossipReporter.peer_status
    global_round,   \* GossipReporter.global_round
    total_gossips,  \* GossipReporter.total_gossips
    monitor_task,   \* GossipReporter._monitor_task: none, running, cancelled
    evaluator_cfg,  \* GossipReporterConfig.evaluator_ref
    repOut,         \* messages the reporter passed to ActorRef.tell
    repNow,         \* the event loop's time, in deliveries
    repRounds,      \* round_num of every GossipState delivered
    repGossips,     \* GossipState messages delivered
    reports,        \* reports written by the monitoring loop
    \* ---- the coordinator's health loop (src/fl/provider.py)
    href,           \* role -> Provider.aggregator_ref / evaluator_ref is set
    last_health_ack, \* Provider._last_health_ack
    hnow,           \* the event loop's clock
    hpings,         \* role -> HealthPing messages told to it
    htasks,         \* _check_health_timeout tasks created and not yet run
    hiters,         \* iterations of the health loop
    \* ---- senders outside the coordinator's worker map
    strays,         \* ModelUpdate messages told by actors that never registered
    \* ---- the receiving side of the remote connections (src/actor/actor_system.py)
    rread,          \* connection -> frames of it the receiving system has read
    rbox,           \* the mailbox of the remote target actor
    rhandled,       \* the messages the remote target actor has processed
    \* ---- one actor's _run_actor task (src/actor/actor_system.py)
    fparent,        \* the actor's context.parent is set
    fpc,            \* _run_actor: new (before pre_start), running (in the loop), ended
    fbox,           \* the actor's mailbox
    fsent,          \* messages put in the mailbox so far
    fdone,          \* the messages the loop has taken, in order
    ptold,          \* the messages told to the parent
    fescaped,       \* exceptions that left _run_actor
    \* ---- a gossip peer merging GossipState payloads of any shape (src/fl/gossip_peer.py, src/fl/crdt.py)
    mmap,           \* the peer's lww_map
    mknown,         \* keys of the peer's known_peers
    mhandled,       \* GossipState messages passed to _handle_gossip_state so far
    mlast,          \* the latest of them: the message, the map and the peers before it, whether the handler raised
    \* ---- ActorRef.ask (src/actor/actor_system.py)
    pending_asks,   \* ActorSystem._pending_asks: message id -> state of its future
    askTasks,       \* the _deliver_local tasks created by tell() and not yet run, oldest first
    askBox,         \* the recipient's mailbox
    replyBox,       \* the mailbox of the actor the recipient replies to
    askCalls,       \* message id -> the ask() call made with it: none, waiting, timeout, and whether a reply was there when it ended
    \* ---- concurrent teardowns and respawns of one actor id (src/actor/actor_system.py)
    ractor,         \* ActorSystem._actors.get('a'): the instance registered under the id, with its mailbox and task
    rmade,          \* actor instances constructed so far
    rlive,          \* instances whose _run_actor task has not ended
    rcancelled,     \* instances whose task was cancelled
    rstops,         \* the _stop_actor tasks: position, and the instance captured at the start
    rpost,          \* instance -> invocations of its post_stop
    rremoved        \* for every completed del: the instance the teardown captured and the instance whose entries it removed

crdtVars == <<replicas, deltas, observed, merges>>
rtVars == <<ready, mailbox, putters, loopPc, active, processed, told>>

provVars == <<prov, inbox, wbox, toAgg, toEval, regs, forwarded>>

supVars == <<registry, instances, stops, stopTasks, supBox, supPc, monitored, order,
             pending_acks, ctxChildren, pings, healthChecks, failures, restarts>>

convVars == <<conv, convSamples>>

gossipVars == <<gcfg, peer, net, sent, gossips>>

sysVars == <<send_middleware, receive_middleware, tells, sendTasks, remote_connections, dials, raised, written, box, handled, skipped>>

treeVars == <<actors, mailboxes, tasks, made, kids, cancelled, ended, post_stopped, stopTask, stopCalls, actorOfCalls>>

becomeVars == <<stateful, sfTold, sfReady, sfBox, sfLog>>

lwwVars == <<lmap, lpub, lsnaps, lmerges, lastOp>>

pnVars == <<pn, pnsnaps, pnmerges, incs, decs, heard>>

repVars == <<peer_status, global_round, total_gossips, monitor_task, evaluator_cfg, repOut, repNow, repRounds, repGossips, reports>>

healthVars == <<href, last_health_ack, hnow, hpings, htasks, hiters>>

strayVars == <<strays>>

wireVars == <<rread, rbox, rhandled>>

failVars == <<fparent, fpc, fbox, fsent, fdone, ptold, fescaped>>

malVars == <<mmap, mknown, mhandled, mlast>>

askVars == <<pending_asks, askTasks, askBox, replyBox, askCalls>>

raceVars == <<ractor, rmade, rlive, rcancelled, rstops, rpost, rremoved>>

oldVars == <<crdtVars, rtVars, provVars, supVars>>

newVars == <<convVars, gossipVars, sysVars, treeVars, becomeVars, lwwVars, pnVars, repVars, healthVars, strayVars, wireVars, failVars, malVars, askVars, raceVars>>

exceptConvVars == <<oldVars, gossipVars, sysVars, treeVars, becomeVars, lwwVars, pnVars, repVars, healthVars, strayVars, wireVars, failVars, malVars, askVars, raceVars>>

otherConvVars == <<gossipVars, sysVars, treeVars, becomeVars, lwwVars, pnVars, repVars, healthVars, strayVars, wireVars, failVars, malVars, askVars, raceVars>>

exceptGossipVars == <<oldVars, convVars, sysVars, treeVars, becomeVars, lwwVars, pnVars, repVars, healthVars, strayVars, wireVars, failVars, malVars, askVars, raceVars>>

otherGossipVars == <<convVars, sysVars, treeVars, becomeVars, lwwVars, pnVars, repVars, healthVars, strayVars, wireVars, failVars, malVars, askVars, raceVars>>

exceptSysVars == <<oldVars, convVars, gossipVars, treeVars, becomeVars, lwwVars, pnVars, repVars, healthVars, strayVars, wireVars, failVars, malVars, askVars, raceVars>>

otherSysVars == <<convVars, gossipVars, treeVars, becomeVars, lwwVars, pnVars, repVars, healthVars, strayVars, wireVars, failVars, malVars, askVars, raceVars>>

exceptTreeVars == <<oldVars, convVars, gossipVars, sysVars, becomeVars, lwwVars, pnVars, repVars, healthVars, strayVars, wireVars, failVars, malVars, askVars, raceVars>>

otherTreeVars == <<convVars, gossipVars, sysVars, becomeVars, lwwVars, pnVars, repVars, healthVars, strayVars, wireVars, failVars, malVars, askVars, raceVars>>

exceptBecomeVars == <<oldVars, convVars, gossipVars, sysVars, treeVars, lwwVars, pnVars, repVars, healthVars, strayVars, wireVars, failVars, malVars, askVars, raceVars>>

otherBecomeVars == <<convVars, gossipVars, sysVars, treeVars, lwwVars, pnVars, repVars, healthVars, strayVars, wireVars, failVars, malVars, askVars, raceVars>>

exceptLwwVars == <<oldVars, convVars, gossipVars, sysVars, treeVars, becomeVars, pnVars, repVars, healthVars, strayVars, wireVars, failVars, malVars, askVars, raceVars>>

otherLwwVars == <<convVars, gossipVars, sysVars, treeVars, becomeVars, pnVars, repVars, healthVars, strayVars, wireVars, failVars, malVars, askVars, raceVars>>

exceptPnVars == <<oldVars, convVars, gossipVars, sysVars, treeVars, becomeVars, lwwVars, repVars, healthVars, strayVars, wireVars, failVars, malVars, askVars, raceVars>>

otherPnVars == <<convVars, gossipVars, sysVars, treeVars, becomeVars, lwwVars, repVars, healthVars, strayVars, wireVars, failVars, malVars, askVars, raceVars>>

exceptRepVars == <<oldVars, convVars, gossipVars, sysVars, treeVars, becomeVars, lwwVars, pnVars, healthVars, strayVars, wireVars, failVars, malVars, askVars, raceVars>>

otherRepVars == <<convVars, gossipVars, sysVars, treeVars, becomeVars, lwwVars, pnVars, healthVars, strayVars, wireVars, failVars, malVars, askVars, raceVars>>

exceptHealthVars == <<oldVars, convVars, gossipVars, sysVars, treeVars, becomeVars, lwwVars, pnVars, repVars, strayVars, wireVars, failVars, malVars, askVars, raceVars>>

otherHealthVars == <<convVars, gossipVars, sysVars, treeVars, becomeVars, lwwVars, pnVars, repVars, strayVars, wireVars, failVars, malVars, askVars, raceVars>>

exceptStrayVars == <<oldVars, convVars, gossipVars, sysVars, treeVars, becomeVars, lwwVars, pnVars, repVars, healthVars, wireVars, failVars, malVars, askVars, raceVars>>

otherStrayVars == <<convVars, gossipVars, sysVars, treeVars, becomeVars, lwwVars, pnVars, repVars, healthVars, wireVars, failVars, malVars, askVars, raceVars>>

exceptWireVars == <<oldVars, convVars, gossipVars, sysVars, treeVars, becomeVars, lwwVars, pnVars, repVars, healthVars, strayVars, failVars, malVars, askVars, raceVars>>

otherWireVars == <<convVars, gossipVars, sysVars, treeVars, becomeVars, lwwVars, pnVars, repVars, healthVars, strayVars, failVars, malVars, askVars, raceVars>>

exceptFailVars == <<oldVars, convVars, gossipVars, sysVars, treeVars, becomeVars, lwwVars, pnVars, repVars, healthVars, strayVars, wireVars, malVars, askVars, raceVars>>

otherFailVars == <<convVars, gossipVars, sysVars, treeVars, becomeVars, lwwVars, pnVars, repVars, healthVars, strayVars, wireVars, malVars, askVars, raceVars>>

exceptMalVars == <<oldVars, convVars, gossipVars, sysVars, treeVars, becomeVars, lwwVars, pnVars, repVars, healthVars, strayVars, wireVars, failVars, askVars, raceVars>>

otherMalVars == <<convVars, gossipVars, sysVars, treeVars, becomeVars, lwwVars, pnVars, repVars, healthVars, strayVars, wireVars, failVars, askVars, raceVars>>

exceptAskVars == <<oldVars, convVars, gossipVars, sysVars, treeVars, becomeVars, lwwVars, pnVars, repVars, healthVars, strayVars, wireVars, failVars, malVars, raceVars>>

otherAskVars == <<convVars, gossipVars, sysVars, treeVars, becomeVars, lwwVars, pnVars, repVars, healthVars, strayVars, wireVars, failVars, malVars, raceVars>>

exceptRaceVars == <<oldVars, convVars, gossipVars, sysVars, treeVars, becomeVars, lwwVars, pnVars, repVars, healthVars, strayVars, wireVars, failVars, malVars, askVars>>

otherRaceVars == <<convVars, gossipVars, sysVars, treeVars, becomeVars, lwwVars, pnVars, repVars, healthVars, strayVars, wireVars, failVars, malVars, askVars>>

vars == <<crdtVars, rtVars, provVars, supVars, newVars>>

---------------------------------------------------------------------------
(***************************************************************************)
(* Dictionaries (Python dict) are functions whose domain is the key set.   *)
(***************************************************************************)
EmptyDict == [x \in {} |-> 0]

DictSet(d, key, val) == [x \in (DOMAIN d) \cup {key} |-> IF x = key THEN val ELSE d[x]]

DictDel(d, key) == [x \in (DOMAIN d) \ {key} |-> d[x]]

---------------------------------------------------------------------------
(***************************************************************************)
(* LWWMap.  Replica ids are the strings "A" < "B" < "C"; the model uses    *)
(* their ranks 1 < 2 < 3, which is all Timestamp._key ever compares.       *)
(***************************************************************************)
ReplicaIds == {1, 2, 3}
Keys == {"k"}
Values == {"v1", "v2"}
None == "None"

\* Number of put()/delete() calls over all replicas.
MaxDeltas == 2
\* Number of merge() calls per replica.
MaxMerges == 2

Timestamp(rid, lt) == [replica_id |-> rid, logical_time |-> lt]

\* mutant of TsLt: the replica id does not break ties
TsLtTimeOnly(a, b) == a.logical_time < b.logical_time

\* Timestamp.__lt__: (logical_time, replica_id) compared lexicographically
TsLt(a, b) ==
    \/ a.logical_time < b.logical_time
    \/ a.logical_time = b.logical_time /\ a.replica_id < b.replica_id

TsLe(a, b) == TsLt(a, b) \/ a = b
TsGt(a, b) == TsLt(b, a)
TsGe(a, b) == TsLt(b, a) \/ a = b

LWWMapNew(rid) ==
    [replica_id |-> rid, clock |-> 0, data |-> EmptyDict, tombstones |-> EmptyDict]

\* mutant of NextTs: the operation is stamped with the clock before the increment
NextTsStale(m) == Timestamp(m.replica_id, m.clock)

\* LWWMap._next_ts
NextTs(m) == Timestamp(m.replica_id, m.clock + 1)

\* LWWMap.put: the replica after the call
LwwPut(m, key, value) ==
    LET ts == NextTs(m) IN
    [m EXCEPT !.clock = m.clock + 1,
              !.data = DictSet(m.data, key, [value |-> value, ts |-> ts]),
              !.tombstones = IF key \in DOMAIN m.tombstones /\ TsLt(m.tombstones[key], ts)
                             THEN DictDel(m.tombstones, key)
                             ELSE m.tombstones]

\* LWWMap.put: the delta it returns
PutDelta(m, key, value) == [type |-> "put", key |-> key, value |-> value, ts |-> NextTs(m)]

\* LWWMap.delete: the replica after the call (the data entry is left in place)
LwwDelete(m, key) ==
    [m EXCEPT !.clock = m.clock + 1,
              !.tombstones = DictSet(m.tombstones, key, NextTs(m))]

\* LWWMap.delete: the delta it returns
DeleteDelta(m, key) == [type |-> "delete", key |-> key, value |-> None, ts |-> NextTs(m)]

\* mutant of LwwGet: tombstones are not looked at
LwwGetData(m, key) == IF key \notin DOMAIN m.data THEN None ELSE m.data[key].value

\* LWWMap.get
LwwGet(m, key) ==
    IF key \notin DOMAIN m.data THEN None
    ELSE IF key \in DOMAIN m.tombstones /\ TsGe(m.tombstones[key], m.data[key].ts) THEN None
    ELSE m.data[key].value

\* mutant of MergePutApplies: the incoming put always overwrites
MergePutAppliesAlways(m, key, ts) == TRUE

\* LWWMap.merge, 'put' branch: the condition under which the entry is replaced
MergePutApplies(m, key, ts) == key \notin DOMAIN m.data \/ TsGt(ts, m.data[key].ts)

\* LWWMap.merge, 'delete' branch: the condition under which the tombstone is replaced
MergeDeleteApplies(m, key, ts) == key \notin DOMAIN m.tombstones \/ TsGt(ts, m.tombstones[key])

\* mutant of MergedClock: a merge leaves the clock as it is
MergedClockStale(m, ts) == m.clock

\* max(self.clock, ts.logical_time) + 1
MergedClock(m, ts) == (IF m.clock >= ts.logical_time THEN m.clock ELSE ts.logical_time) + 1

\* LWWMap.merge
LwwMerge(m, d) ==
    IF d.type = "put" THEN
        LET applied == MergePutApplies(m, d.key, d.ts)
            data1 == IF applied THEN DictSet(m.data, d.key, [value |-> d.value, ts |-> d.ts])
                     ELSE m.data
            tomb1 == IF applied /\ d.key \in DOMAIN m.tombstones /\ TsGt(d.ts, m.tombstones[d.key])
                     THEN DictDel(m.tombstones, d.key)
                     ELSE m.tombstones
        IN [m EXCEPT !.data = data1, !.tombstones = tomb1, !.clock = MergedClock(m, d.ts)]
    ELSE IF d.type = "delete" THEN
        LET applied == MergeDeleteApplies(m, d.key, d.ts)
            tomb1 == IF applied THEN DictSet(m.tombstones, d.key, d.ts) ELSE m.tombstones
            data1 == IF applied /\ d.key \in DOMAIN m.data /\ TsGe(d.ts, m.data[d.key].ts)
                     THEN DictDel(m.data, d.key)
                     ELSE m.data
        IN [m EXCEPT !.data = data1, !.tombstones = tomb1, !.clock = MergedClock(m, d.ts)]
    ELSE m

CrdtInit ==
    /\ replicas = [r \in ReplicaIds |-> LWWMapNew(r)]
    /\ deltas = {}
    /\ observed = [r \in ReplicaIds |-> {}]
    /\ merges = [r \in ReplicaIds |-> 0]

\* replica r calls put(key, value) and publishes the returned delta
Put(r, key, value) ==
    /\ Cardinality(deltas) < MaxDeltas
    /\ replicas' = [replicas EXCEPT ![r] = LwwPut(@, key, value)]
    /\ deltas' = deltas \cup {PutDelta(replicas[r], key, value)}
    /\ observed' = [observed EXCEPT ![r] = @ \cup {PutDelta(replicas[r], key, value)}]
    /\ UNCHANGED merges
    /\ UNCHANGED <<rtVars, provVars, supVars, newVars>>

\* replica r calls delete(key) and publishes the returned delta
Delete(r, key) ==
    /\ Cardinality(deltas) < MaxDeltas
    /\ replicas' = [replicas EXCEPT ![r] = LwwDelete(@, key)]
    /\ deltas' = deltas \cup {DeleteDelta(replicas[r], key)}
    /\ observed' = [observed EXCEPT ![r] = @ \cup {DeleteDelta(replicas[r], key)}]
    /\ UNCHANGED merges
    /\ UNCHANGED <<rtVars, provVars, supVars, newVars>>

\* replica r merges a delta issued by another replica (any order, repeats allowed)
Merge(r, d) ==
    /\ d.ts.replica_id # r
    /\ merges[r] < MaxMerges
    /\ replicas' = [replicas EXCEPT ![r] = LwwMerge(@, d)]
    /\ observed' = [observed EXCEPT ![r] = @ \cup {d}]
    /\ merges' = [merges EXCEPT ![r] = @ + 1]
    /\ UNCHANGED <<deltas, rtVars, provVars, supVars, newVars>>

---------------------------------------------------------------------------
(***************************************************************************)
(* Actor runtime.  One local actor "a" with its mailbox and _run_actor     *)
(* task, and senders that call tell() on a local ref to it.  asyncio runs  *)
(* one task step at a time, taken from the head of its ready queue; a      *)
(* step runs until the task suspends or ends.                              *)
(***************************************************************************)
Senders == {"s1", "s2"}

\* Messages each sender tells.
MaxMsgs == 3
\* Mailbox capacity (Mailbox.__init__ sets 1000; the model scales it down).
Capacity == 2

Msg(s, n) == [from |-> s, n |-> n]

ActorStep == [kind |-> "actor", from |-> "a", n |-> 0]
SenderStep(s) == [kind |-> "sender", from |-> s, n |-> 0]
DeliverStep(m) == [kind |-> "deliver", from |-> m.from, n |-> m.n]

RECURSIVE TellAll(_, _, _, _)
\* ActorRef.tell, local branch, called for messages first..last of sender s:
\* each call creates one _deliver_local task, queued behind what is ready
TellAll(rq, s, first, last) ==
    IF first > last THEN rq
    ELSE TellAll(Append(rq, DeliverStep(Msg(s, first))), s, first + 1, last)

\* mutant of Full: a mailbox without a bound
FullNever(q) == FALSE

\* Queue.full()
Full(q) == Len(q) >= Capacity

\* Queue._wakeup_next(self._putters): the ready queue after waking the first putter
WakePutter(rq, ps) == IF ps = <<>> THEN rq ELSE Append(rq, DeliverStep(Head(ps)))

\* mutant of LoopAfterSuspend: the loop does not wait for the behaviour it started
LoopDetached == "get"

\* _run_actor line 209, 'await actor._behavior(msg)': while the behaviour is
\* suspended the loop is suspended with it
LoopAfterSuspend == "behavior"

RtInit ==
    /\ ready = <<ActorStep>>
    /\ mailbox = <<>>
    /\ putters = <<>>
    /\ loopPc = "get"
    /\ active = 0
    /\ processed = <<>>
    /\ told = [s \in Senders |-> 0]

\* something the sender waits for completes: its next step becomes runnable
SenderReady(s) ==
    /\ told[s] < MaxMsgs
    /\ \A i \in 1..Len(ready) : ready[i] # SenderStep(s)
    /\ ready' = Append(ready, SenderStep(s))
    /\ UNCHANGED <<mailbox, putters, loopPc, active, processed, told>>
    /\ UNCHANGED <<crdtVars, provVars, supVars, newVars>>

\* a step of sender s: it calls ref.tell(msg) for its next k messages
RunSender(s, k) ==
    /\ ready # <<>> /\ Head(ready) = SenderStep(s)
    /\ told[s] + k <= MaxMsgs
    /\ ready' = TellAll(Tail(ready), s, told[s] + 1, told[s] + k)
    /\ told' = [told EXCEPT ![s] = @ + k]
    /\ UNCHANGED <<mailbox, putters, loopPc, active, processed>>
    /\ UNCHANGED <<crdtVars, provVars, supVars, newVars>>

\* a step of a _deliver_local task (its first step, or its wake-up from
\* Queue.put): while the mailbox is full it waits as a putter, else it
\* enqueues and wakes the actor if that waits in Mailbox.get
RunDeliver ==
    /\ ready # <<>> /\ Head(ready).kind = "deliver"
    /\ LET m == Msg(Head(ready).from, Head(ready).n) IN
       IF Full(mailbox)
       THEN /\ putters' = Append(putters, m)
            /\ ready' = Tail(ready)
            /\ UNCHANGED <<mailbox, loopPc>>
       ELSE /\ mailbox' = Append(mailbox, m)
            /\ ready' = IF loopPc = "waitGet" THEN Append(Tail(ready), ActorStep) ELSE Tail(ready)
            /\ loopPc' = IF loopPc = "waitGet" THEN "get" ELSE loopPc
            /\ UNCHANGED putters
    /\ UNCHANGED <<active, processed, told>>
    /\ UNCHANGED <<crdtVars, provVars, supVars, newVars>>

\* a step of _run_actor at 'msg = await mailbox.get()' with an empty
\* mailbox: the task suspends as a getter
ActorWaitGet ==
    /\ ready # <<>> /\ Head(ready) = ActorStep
    /\ loopPc = "get" /\ mailbox = <<>>
    /\ loopPc' = "waitGet"
    /\ ready' = Tail(ready)
    /\ UNCHANGED <<mailbox, putters, active, processed, told>>
    /\ UNCHANGED <<crdtVars, provVars, supVars, newVars>>

\* a step of _run_actor: get() takes the oldest message and wakes the first
\* putter, the behaviour is invoked on it; the behaviour either ends within
\* the step (returns or raises: the loop goes on, still running) or suspends
ActorReceive(suspends) ==
    /\ ready # <<>> /\ Head(ready) = ActorStep
    /\ loopPc = "get" /\ mailbox # <<>>
    /\ mailbox' = Tail(mailbox)
    /\ putters' = IF putters = <<>> THEN putters ELSE Tail(putters)
    /\ processed' = Append(processed, Head(mailbox))
    /\ IF suspends
       THEN /\ active' = active + 1
            /\ loopPc' = LoopAfterSuspend
            /\ ready' = IF LoopAfterSuspend = "get"
                        THEN WakePutter(ready, putters)
                        ELSE WakePutter(Tail(ready), putters)
       ELSE /\ active' = active
            /\ loopPc' = "get"
            /\ ready' = WakePutter(ready, putters)
    /\ UNCHANGED told
    /\ UNCHANGED <<crdtVars, provVars, supVars, newVars>>

\* what the suspended behaviour waits for completes: the actor's task is
\* runnable again
BehaviorReady ==
    /\ loopPc = "behavior"
    /\ \A i \in 1..Len(ready) : ready[i] # ActorStep
    /\ ready' = Append(ready, ActorStep)
    /\ UNCHANGED <<mailbox, putters, loopPc, active, processed, told>>
    /\ UNCHANGED <<crdtVars, provVars, supVars, newVars>>

\* the resumed behaviour runs to its end (returns or raises); the loop goes
\* back to mailbox.get() within the same step
BehaviorEnd ==
    /\ ready # <<>> /\ Head(ready) = ActorStep
    /\ loopPc = "behavior"
    /\ active' = active - 1
    /\ loopPc' = "get"
    /\ UNCHANGED <<ready, mailbox, putters, processed, told>>
    /\ UNCHANGED <<crdtVars, provVars, supVars, newVars>>

---------------------------------------------------------------------------
(***************************************************************************)
(* Round coordinator (Provider) with its workers, aggregator and           *)
(* evaluator.  Every peer runs in its own actor system: messages travel    *)
(* over one connection per sender and arrive in the order sent; messages   *)
(* of different senders interleave freely in the provider's mailbox.  The  *)
(* provider handles one message at a time (a handler's sleeps keep the     *)
(* actor busy), so each handler is one step.  Weights are left out: an     *)
(* update is known by its worker and the round it was trained for.         *)
(***************************************************************************)
\* Provider.num_workers
NumWorkers == 2
\* Provider.num_rounds
NumRounds == 3
\* RegisterAggregator messages the aggregator sends (one per start of the
\* actor: a restarted aggregator registers again).
MaxRegs == 2

\* the worker processes that may register
Workers == {"w1", "w2", "w3"}
PeerIds == Workers \cup {"agg", "eval"}
NoMsg == [type |-> "none", round |-> 0, updates |-> <<>>]

RegisterWorker(w) == [type |-> "RegisterWorker", from |-> w, round |-> 0]
RegisterAggregator == [type |-> "RegisterAggregator", from |-> "agg", round |-> 0]
RegisterEvaluator == [type |-> "RegisterEvaluator", from |-> "eval", round |-> 0]
TrainRequest(k) == [type |-> "TrainRequest", round |-> k]
GlobalModelBroadcast(k) == [type |-> "GlobalModelBroadcast", round |-> k]
\* ModelUpdate carries worker_id; the round is in metrics['round']
ModelUpdate(w, k) == [type |-> "ModelUpdate", from |-> w, round |-> k]
AggregateRound(k, ups) == [type |-> "AggregateRound", round |-> k, updates |-> ups]
AggregatedResult(k) == [type |-> "AggregatedResult", from |-> "agg", round |-> k]
EvaluationResult(k) == [type |-> "EvaluationResult", from |-> "eval", round |-> k]

\* Provider.__init__
ProviderNew ==
    [workers |-> {},
     aggregator_ref |-> FALSE,
     evaluator_ref |-> FALSE,
     current_round |-> 0,
     training_started |-> FALSE,
     training_complete |-> FALSE,
     round_weight_updates |-> <<>>,
     history |-> <<>>,
     awaiting_aggregation |-> FALSE,
     pending_aggregate |-> NoMsg,
     pending_eval_broadcast |-> NoMsg]

ProvInit ==
    /\ prov = ProviderNew
    /\ inbox = [s \in PeerIds |-> <<>>]
    /\ wbox = [w \in Workers |-> <<>>]
    /\ toAgg = <<>>
    /\ toEval = <<>>
    /\ regs = [s \in PeerIds |-> 0]
    /\ forwarded = <<>>

\* 'for wid, wref in self.workers.items(): wref.tell(msg)'
TellWorkers(wb, ws, msg) == [w \in Workers |-> IF w \in ws THEN Append(wb[w], msg) ELSE wb[w]]

\* Provider._start_round: the provider's fields after the call
StartRound(p, k) ==
    IF p.training_complete THEN p
    ELSE [p EXCEPT !.training_started = TRUE,
                   !.current_round = k,
                   !.awaiting_aggregation = FALSE,
                   !.round_weight_updates = <<>>]

\* Provider._start_round: the workers' channels after the call
StartRoundTell(p, wb, k) ==
    IF p.training_complete THEN wb ELSE TellWorkers(wb, p.workers, TrainRequest(k))

\* Provider._proceed_to_next_round: the provider's fields after the call
ProceedToNextRound(p) ==
    IF p.current_round >= NumRounds
    THEN [p EXCEPT !.training_complete = TRUE]
    ELSE StartRound(p, p.current_round + 1)

\* Provider._proceed_to_next_round: the workers' channels after the call
ProceedTell(p, wb) ==
    IF p.current_round >= NumRounds THEN wb ELSE StartRoundTell(p, wb, p.current_round + 1)

\* the provider takes the oldest message of sender s from its mailbox
Takes(s, type) == inbox[s] # <<>> /\ Head(inbox[s]).type = type

Taken(s) == [inbox EXCEPT ![s] = Tail(@)]

\* Provider._handle_register_worker
HandleRegisterWorker(w) ==
    /\ Takes(w, "RegisterWorker")
    /\ inbox' = Taken(w)
    /\ IF w \in prov.workers
       THEN UNCHANGED <<prov, wbox>>
       ELSE LET p1 == [prov EXCEPT !.workers = @ \cup {w}] IN
            IF Cardinality(p1.workers) >= NumWorkers /\ ~p1.training_started
            THEN /\ prov' = StartRound(p1, 1)
                 /\ wbox' = StartRoundTell(p1, wbox, 1)
            ELSE /\ prov' = p1
                 /\ UNCHANGED wbox
    /\ UNCHANGED <<toAgg, toEval, regs, forwarded>>
    /\ UNCHANGED <<crdtVars, rtVars, supVars, newVars>>

\* Provider._handle_register_evaluator
HandleRegisterEvaluator ==
    /\ Takes("eval", "RegisterEvaluator")
    /\ inbox' = Taken("eval")
    /\ IF prov.pending_eval_broadcast # NoMsg
       THEN /\ toEval' = Append(toEval, prov.pending_eval_broadcast)
            /\ prov' = [prov EXCEPT !.evaluator_ref = TRUE, !.pending_eval_broadcast = NoMsg]
       ELSE /\ prov' = [prov EXCEPT !.evaluator_ref = TRUE]
            /\ UNCHANGED toEval
    /\ UNCHANGED <<wbox, toAgg, regs, forwarded>>
    /\ UNCHANGED <<crdtVars, rtVars, supVars, newVars>>

\* mutant of HandleRegisterAggregator: the registration stores the ref and sends nothing
HandleRegisterAggregatorOnly ==
    /\ Takes("agg", "RegisterAggregator")
    /\ inbox' = Taken("agg")
    /\ prov' = [prov EXCEPT !.aggregator_ref = TRUE]
    /\ UNCHANGED <<wbox, toAgg, toEval, regs, forwarded>>
    /\ UNCHANGED <<crdtVars, rtVars, supVars, newVars>>

\* Provider._handle_register_aggregator
HandleRegisterAggregator ==
    /\ Takes("agg", "RegisterAggregator")
    /\ inbox' = Taken("agg")
    /\ IF prov.pending_aggregate # NoMsg
       THEN /\ toAgg' = Append(toAgg, prov.pending_aggregate)
            /\ forwarded' = Append(forwarded, prov.pending_aggregate)
            /\ prov' = [prov EXCEPT !.aggregator_ref = TRUE,
                                    !.pending_aggregate = NoMsg,
                                    !.awaiting_aggregation = FALSE]
       ELSE /\ prov' = [prov EXCEPT !.aggregator_ref = TRUE]
            /\ UNCHANGED <<toAgg, forwarded>>
    /\ UNCHANGED <<wbox, toEval, regs>>
    /\ UNCHANGED <<crdtVars, rtVars, supVars, newVars>>

\* Provider._handle_model_update
HandleModelUpdate(w) ==
    /\ Takes(w, "ModelUpdate")
    /\ inbox' = Taken(w)
    /\ LET ups == Append(prov.round_weight_updates, Head(inbox[w]))
           p1 == [prov EXCEPT !.round_weight_updates = ups]
           aggregate_msg == AggregateRound(prov.current_round, ups)
       IN IF Len(ups) >= NumWorkers /\ ~prov.awaiting_aggregation
          THEN IF ~prov.aggregator_ref
               THEN /\ prov' = [p1 EXCEPT !.pending_aggregate = aggregate_msg]
                    /\ UNCHANGED <<toAgg, forwarded>>
               ELSE /\ prov' = [p1 EXCEPT !.awaiting_aggregation = TRUE,
                                          !.pending_aggregate = aggregate_msg]
                    /\ toAgg' = Append(toAgg, aggregate_msg)
                    /\ forwarded' = Append(forwarded, aggregate_msg)
          ELSE /\ prov' = p1
               /\ UNCHANGED <<toAgg, forwarded>>
    /\ UNCHANGED <<wbox, toEval, regs>>
    /\ UNCHANGED <<crdtVars, rtVars, supVars, newVars>>

\* Provider._handle_aggregated_result.  The broadcast to the workers only
\* replaces their model weights (RegionWorker._handle_global_model), which
\* the model leaves out, so it is not put on the workers' channels.
HandleAggregatedResult ==
    /\ Takes("agg", "AggregatedResult")
    /\ inbox' = Taken("agg")
    /\ IF Head(inbox["agg"]).round # prov.current_round
       THEN UNCHANGED <<prov, wbox, toEval>>
       ELSE LET bcast == GlobalModelBroadcast(prov.current_round) IN
            /\ prov' = [prov EXCEPT !.pending_aggregate = NoMsg,
                                    !.history = Append(@, prov.current_round),
                                    !.pending_eval_broadcast = bcast]
            /\ toEval' = IF prov.evaluator_ref THEN Append(toEval, bcast) ELSE toEval
            /\ UNCHANGED wbox
    /\ UNCHANGED <<toAgg, regs, forwarded>>
    /\ UNCHANGED <<crdtVars, rtVars, supVars, newVars>>

\* Provider._handle_evaluation_result
HandleEvaluationResult ==
    /\ Takes("eval", "EvaluationResult")
    /\ inbox' = Taken("eval")
    /\ LET p1 == [prov EXCEPT !.pending_eval_broadcast = NoMsg] IN
       /\ prov' = ProceedToNextRound(p1)
       /\ wbox' = ProceedTell(p1, wbox)
    /\ UNCHANGED <<toAgg, toEval, regs, forwarded>>
    /\ UNCHANGED <<crdtVars, rtVars, supVars, newVars>>

\* RegionWorker.pre_start: the worker registers with the provider
WorkerRegister(w) ==
    /\ regs[w] = 0
    /\ regs' = [regs EXCEPT ![w] = 1]
    /\ inbox' = [inbox EXCEPT ![w] = Append(@, RegisterWorker(w))]
    /\ UNCHANGED <<prov, wbox, toAgg, toEval, forwarded>>
    /\ UNCHANGED <<crdtVars, rtVars, supVars, newVars>>

\* RegionWorker._handle_train_request: train, answer with a ModelUpdate
WorkerTrain(w) ==
    /\ wbox[w] # <<>> /\ Head(wbox[w]).type = "TrainRequest"
    /\ wbox' = [wbox EXCEPT ![w] = Tail(@)]
    /\ inbox' = [inbox EXCEPT ![w] = Append(@, ModelUpdate(w, Head(wbox[w]).round))]
    /\ UNCHANGED <<prov, toAgg, toEval, regs, forwarded>>
    /\ UNCHANGED <<crdtVars, rtVars, supVars, newVars>>

\* Evaluator.pre_start: the evaluator registers
EvaluatorRegister ==
    /\ regs["eval"] = 0
    /\ regs' = [regs EXCEPT !["eval"] = @ + 1]
    /\ inbox' = [inbox EXCEPT !["eval"] = Append(@, RegisterEvaluator)]
    /\ UNCHANGED <<prov, wbox, toAgg, toEval, forwarded>>
    /\ UNCHANGED <<crdtVars, rtVars, supVars, newVars>>

\* Evaluator._handle_global_model: evaluate, answer with an EvaluationResult
EvaluatorEvaluate ==
    /\ toEval # <<>>
    /\ toEval' = Tail(toEval)
    /\ inbox' = [inbox EXCEPT !["eval"] = Append(@, EvaluationResult(Head(toEval).round))]
    /\ UNCHANGED <<prov, wbox, toAgg, regs, forwarded>>
    /\ UNCHANGED <<crdtVars, rtVars, supVars, newVars>>

\* the aggregator (each instance of it) registers with the provider
AggregatorRegister ==
    /\ regs["agg"] < MaxRegs
    /\ regs' = [regs EXCEPT !["agg"] = @ + 1]
    /\ inbox' = [inbox EXCEPT !["agg"] = Append(@, RegisterAggregator)]
    /\ UNCHANGED <<prov, wbox, toAgg, toEval, forwarded>>
    /\ UNCHANGED <<crdtVars, rtVars, supVars, newVars>>

\* the aggregator answers an AggregateRound with the AggregatedResult of
\* that round
AggregatorAggregate ==
    /\ toAgg # <<>>
    /\ toAgg' = Tail(toAgg)
    /\ inbox' = [inbox EXCEPT !["agg"] = Append(@, AggregatedResult(Head(toAgg).round))]
    /\ UNCHANGED <<prov, wbox, toEval, regs, forwarded>>
    /\ UNCHANGED <<crdtVars, rtVars, supVars, newVars>>

---------------------------------------------------------------------------
(***************************************************************************)
(* Supervisor (src/actor/supervisor.py) with the part of the ActorSystem   *)
(* it drives: the registry, actor_of, stop and _stop_actor.  An actor      *)
(* instance is a number: instance k is the k-th actor object constructed.  *)
(* registry[c] = 0 says that no actor is registered under id c.            *)
(***************************************************************************)
Children == {"c1", "c2"}
MaxFailures == 2
MaxHealthChecks == 2

NoInstance == 0

MonitorChild(c) == [type |-> "MonitorChild", child_id |-> c]
ChildFailed(c) == [type |-> "ChildFailed", child_id |-> c]

\* ActorSystem.actor_of: an id that is still registered is returned as it is,
\* and no actor is constructed.
SystemActorOf(reg, n, c) ==
    IF reg[c] # NoInstance THEN reg ELSE [reg EXCEPT ![c] = n + 1]

Constructed(reg, n, c) == IF reg[c] # NoInstance THEN n ELSE n + 1

\* ActorSystem.stop: a _stop_actor task is created only for a registered id.
SystemStop(st, reg, c, t) ==
    IF reg[c] = NoInstance THEN st
    ELSE st \cup {[id |-> c, inst |-> NoInstance, pc |-> "start", task |-> t]}

MonitoredEntry == [status |-> "starting", failed_checks |-> 0]

\* The children a health-check iteration does not skip, in dict order.
Checked == SelectSeq(order, LAMBDA c : monitored[c].status # "failed")

\* child_ref.tell(HealthPing(), sender=...): ActorRef.tell takes the message
\* only, so the call raises TypeError before anything is delivered.
TellRaises == TRUE

SupInit ==
    /\ registry = [c \in Children |-> NoInstance]
    /\ instances = 0
    /\ stops = {}
    /\ stopTasks = 0
    /\ supBox = <<>>
    /\ supPc = [at |-> "idle"]
    /\ monitored = EmptyDict
    /\ order = <<>>
    /\ pending_acks = EmptyDict
    /\ ctxChildren = {}
    /\ pings = [c \in Children |-> 0]
    /\ healthChecks = 0
    /\ failures = 0
    /\ restarts = <<>>

\* Somebody tells MonitorChild(c) to the supervisor.
TellMonitorChild(c) ==
    /\ c \notin DOMAIN monitored
    /\ \A i \in 1..Len(supBox) : supBox[i] # MonitorChild(c)
    /\ supBox' = Append(supBox, MonitorChild(c))
    /\ UNCHANGED <<registry, instances, stops, stopTasks, supPc, monitored, order,
                   pending_acks, ctxChildren, pings, healthChecks, failures, restarts>>
    /\ UNCHANGED <<crdtVars, rtVars, provVars, newVars>>

\* Supervisor.default_behavior on MonitorChild: _add_child.
HandleMonitorChild ==
    /\ supPc.at = "idle"
    /\ supBox # <<>>
    /\ Head(supBox).type = "MonitorChild"
    /\ LET c == Head(supBox).child_id IN
        /\ registry' = SystemActorOf(registry, instances, c)
        /\ instances' = Constructed(registry, instances, c)
        /\ ctxChildren' = ctxChildren \cup {c}
        /\ monitored' = DictSet(monitored, c, MonitoredEntry)
        /\ order' = IF c \in DOMAIN monitored THEN order ELSE Append(order, c)
        /\ pending_acks' = DictSet(pending_acks, c, "clear")
    /\ supBox' = Tail(supBox)
    /\ UNCHANGED <<stops, stopTasks, supPc, pings, healthChecks, failures, restarts>>
    /\ UNCHANGED <<crdtVars, rtVars, provVars, newVars>>

\* _run_actor of a child: its behaviour raises, and the exception handler tells
\* ChildFailed to the parent.  An instance whose task was cancelled runs no
\* behaviour any more.
ChildFails(c) ==
    /\ failures < MaxFailures
    /\ registry[c] # NoInstance
    /\ \A s \in stops : s.inst # registry[c]
    /\ failures' = failures + 1
    /\ supBox' = Append(supBox, ChildFailed(c))
    /\ UNCHANGED <<registry, instances, stops, stopTasks, supPc, monitored, order,
                   pending_acks, ctxChildren, pings, healthChecks, restarts>>
    /\ UNCHANGED <<crdtVars, rtVars, provVars, newVars>>

\* _handle_child_failed and _restart_child up to `await asyncio.sleep(0.5)`.
HandleChildFailed ==
    /\ supPc.at = "idle"
    /\ supBox # <<>>
    /\ Head(supBox).type = "ChildFailed"
    /\ LET c == Head(supBox).child_id IN
        IF c \in DOMAIN monitored
        THEN /\ monitored' = [monitored EXCEPT ![c].status = "failed"]
             /\ stops' = SystemStop(stops, registry, c, stopTasks + 1)
             /\ stopTasks' = IF registry[c] = NoInstance THEN stopTasks ELSE stopTasks + 1
             /\ ctxChildren' = ctxChildren \ {c}
             /\ supPc' = [at |-> "sleep", child_id |-> c, old |-> registry[c]]
        ELSE UNCHANGED <<monitored, stops, stopTasks, ctxChildren, supPc>>
    /\ supBox' = Tail(supBox)
    /\ UNCHANGED <<registry, instances, order, pending_acks, pings, healthChecks,
                   failures, restarts>>
    /\ UNCHANGED <<crdtVars, rtVars, provVars, newVars>>

\* _restart_child after the sleep.  In half a second every _stop_actor task
\* has run as far as it can without waiting: the only teardown that can still
\* be in progress is one suspended inside the old instance's post_stop.
RestartResume ==
    /\ supPc.at = "sleep"
    /\ \A s \in stops : s.pc = "post_stop"
    /\ LET c == supPc.child_id IN
        /\ registry' = SystemActorOf(registry, instances, c)
        /\ instances' = Constructed(registry, instances, c)
        /\ ctxChildren' = ctxChildren \cup {c}
        /\ monitored' = DictSet(monitored, c, MonitoredEntry)
        /\ pending_acks' = DictSet(pending_acks, c, "clear")
        /\ restarts' = Append(restarts,
               [child_id |-> c, old |-> supPc.old,
                new |-> SystemActorOf(registry, instances, c)[c]])
    /\ supPc' = [at |-> "idle"]
    /\ UNCHANGED <<stops, stopTasks, supBox, order, pings, healthChecks, failures>>
    /\ UNCHANGED <<crdtVars, rtVars, provVars, newVars>>

\* _stop_actor from its start to `await self._tasks[actor_id]`: the task of the
\* instance registered now is cancelled.  The monitored children have no
\* children of their own.
StopBegin(s) ==
    /\ s.pc = "start"
    /\ stops' = IF registry[s.id] = NoInstance
                THEN stops \ {s}
                ELSE (stops \ {s}) \cup {[s EXCEPT !.inst = registry[s.id], !.pc = "cancelled"]}
    /\ UNCHANGED <<registry, instances, stopTasks, supBox, supPc, monitored, order,
                   pending_acks, ctxChildren, pings, healthChecks, failures, restarts>>
    /\ UNCHANGED <<crdtVars, rtVars, provVars, newVars>>

\* The three `del` statements: the entry registered under the id is removed,
\* whichever instance it holds; with no entry the first del raises KeyError and
\* the task ends.
Unregister(reg, c) == [reg EXCEPT ![c] = NoInstance]

\* _stop_actor from the cancelled task's end: post_stop() of the captured
\* instance either returns without suspending, and the entry is deleted in the
\* same step, or suspends.
StopPostStop(s, suspends) ==
    /\ s.pc = "cancelled"
    /\ IF suspends
       THEN /\ stops' = (stops \ {s}) \cup {[s EXCEPT !.pc = "post_stop"]}
            /\ UNCHANGED registry
       ELSE /\ stops' = stops \ {s}
            /\ registry' = Unregister(registry, s.id)
    /\ UNCHANGED <<instances, stopTasks, supBox, supPc, monitored, order,
                   pending_acks, ctxChildren, pings, healthChecks, failures, restarts>>
    /\ UNCHANGED <<crdtVars, rtVars, provVars, newVars>>

\* _stop_actor after a post_stop() that suspended.
StopFinish(s) ==
    /\ s.pc = "post_stop"
    /\ stops' = stops \ {s}
    /\ registry' = Unregister(registry, s.id)
    /\ UNCHANGED <<instances, stopTasks, supBox, supPc, monitored, order,
                   pending_acks, ctxChildren, pings, healthChecks, failures, restarts>>
    /\ UNCHANGED <<crdtVars, rtVars, provVars, newVars>>

\* One iteration of the `while True` of _periodic_health_check.  The for loop
\* reaches the first child whose status is not "failed", clears its event and
\* calls tell(), which raises; the handler around the loop body logs the error
\* and the next iteration starts.  No HealthPing is told, no timeout is
\* counted, no restart is begun.
HealthCheck ==
    /\ healthChecks < MaxHealthChecks
    /\ healthChecks' = healthChecks + 1
    /\ IF Checked = <<>>
       THEN UNCHANGED <<pending_acks, pings>>
       ELSE LET c == Head(Checked) IN
            /\ pending_acks' = DictSet(pending_acks, c, "clear")
            /\ pings' = IF TellRaises THEN pings ELSE [pings EXCEPT ![c] = @ + 1]
    /\ UNCHANGED <<registry, instances, stops, stopTasks, supBox, supPc, monitored,
                   order, ctxChildren, failures, restarts>>
    /\ UNCHANGED <<crdtVars, rtVars, provVars, newVars>>

---------------------------------------------------------------------------
(***************************************************************************)
(* GossipPeer convergence counter (src/fl/gossip_peer.py).  A float is a   *)
(* record [kind, val]: kind "fin" with an integer val, or "inf" / "nan"    *)
(* (val 0).  The finite values are scaled so that convergence_eps is 1.    *)
(***************************************************************************)
MaxSamples == 4
ConvergencePatience == 1

Fin(n) == [kind |-> "fin", val |-> n]
Inf == [kind |-> "inf", val |-> 0]
NaN == [kind |-> "nan", val |-> 0]

ConvergenceEps == Fin(1)

\* the values last_delta_norm can take: below eps, eps, above eps, an
\* overflowed norm and the norm of weights that hold a NaN
DeltaNorms == {Fin(0), Fin(1), Fin(2), Inf, NaN}

\* np.isfinite
IsFinite(x) == x.kind = "fin"

\* Python's float `<`: every comparison with NaN is False
FloatLt(a, b) ==
    CASE a.kind = "nan" \/ b.kind = "nan" -> FALSE
      [] a.kind = "inf" -> FALSE
      [] b.kind = "inf" -> TRUE
      [] OTHER -> a.val < b.val

\* GossipPeer._update_convergence: the fields after the call
UpdateConvergence(c, delta_norm) ==
    LET d == IF ~IsFinite(delta_norm) THEN Fin(0) ELSE delta_norm IN
    [convergence_count |-> IF FloatLt(d, ConvergenceEps) THEN c.convergence_count + 1 ELSE 0,
     last_delta_norm |-> d]

\* GossipPeer._is_converged
IsConverged(c) == c.convergence_count >= ConvergencePatience

ConvInit ==
    /\ conv = [convergence_count |-> 0, last_delta_norm |-> Fin(0)]
    /\ convSamples = <<>>

\* one call of _update_convergence
SampleDeltaNorm(delta_norm) ==
    /\ Len(convSamples) < MaxSamples
    /\ conv' = UpdateConvergence(conv, delta_norm)
    /\ convSamples' = Append(convSamples, delta_norm)
    /\ UNCHANGED exceptConvVars

---------------------------------------------------------------------------
(***************************************************************************)
(* Gossip peers (src/fl/gossip_peer.py): two peers "A" and "B", each on    *)
(* its own ActorSystem, each seeded with the other's endpoint.  Model      *)
(* weights are left out: a published model is known by its round, and the  *)
(* norm of a change of the global model is any value the data can give.    *)
(***************************************************************************)
GossipPeers == {"A", "B"}
MaxGossips == 2
MaxTrain == 1
Fanout == 1

\* the order of the peer ids as strings, used as LWW replica id
PeerRank(p) == IF p = "A" THEN 1 ELSE 2

\* the port the peer's ActorSystem listens on
PeerPort(p) == PeerRank(p)

OtherPeer(p) == IF p = "A" THEN "B" ELSE "A"

Loopback == {"0.0.0.0", "127.0.0.1", "localhost"}
Hosts == {"localhost", "127.0.0.1", "10.0.0.2"}
Ports == {1, 2}

\* values of GossipConfig.max_rounds (NoLimit is None)
NoLimit == 0 - 1
MaxRoundsChoices == {NoLimit, 0}

Endpoint(h, port) == [host |-> h, port |-> port]

\* GossipPeer.pre_start: the host the peer takes for its own
SelfHost(system_host) == IF system_host \in Loopback THEN "localhost" ELSE system_host

SelfEndpoint(p) == Endpoint(SelfHost(gcfg[p].host), PeerPort(p))

ModelKey(p) == IF p = "A" THEN "model/A" ELSE "model/B"
ModelKeys == {ModelKey(p) : p \in GossipPeers}

\* peer ids that contain a colon, and the empty id
ColonIds == {"h:1"}
ValidId(id) == id # "" /\ id \notin ColonIds

Max2(a, b) == IF a >= b THEN a ELSE b
Min2(a, b) == IF a <= b THEN a ELSE b

\* mutant of MergeState: only the clock is merged
MergeStateClockOnly(m, other) == [m EXCEPT !.clock = Max2(m.clock, other.clock) + 1]

\* LWWMap.merge_state with a full snapshot (LWWMap.to_dict) of another replica
MergeState(m, other) ==
    LET tomb == [k \in (DOMAIN m.tombstones) \cup (DOMAIN other.tombstones) |->
                    IF k \notin DOMAIN other.tombstones THEN m.tombstones[k]
                    ELSE IF k \notin DOMAIN m.tombstones \/ TsGt(other.tombstones[k], m.tombstones[k])
                         THEN other.tombstones[k]
                         ELSE m.tombstones[k]]
        kept == {k \in DOMAIN m.data :
                    ~(k \in DOMAIN other.tombstones /\ TsGe(tomb[k], m.data[k].ts))}
        data1 == [k \in kept |-> m.data[k]]
        taken == {k \in DOMAIN other.data :
                    /\ ~(k \in DOMAIN tomb /\ TsGe(tomb[k], other.data[k].ts))
                    /\ (k \notin kept \/ TsGt(other.data[k].ts, data1[k].ts))}
    IN [m EXCEPT !.clock = Max2(m.clock, other.clock) + 1,
                 !.tombstones = tomb,
                 !.data = [k \in kept \cup taken |->
                              IF k \in taken THEN other.data[k] ELSE data1[k]]]

\* GossipPeer._collect_peer_models: what the global model is averaged from
GlobalInput(m) == [k \in (DOMAIN m.data) \cap ModelKeys |-> m.data[k].value]

NoGlobal == [x \in {"none"} |-> 0]

\* outcomes of comparing a recomputed global model with the last applied one:
\* a change of at most min_global_apply_eps (not applied), a change below
\* convergence_eps, a change of at least convergence_eps
GlobalDeltas ==
    {[apply |-> FALSE, norm |-> Fin(0)], [apply |-> TRUE, norm |-> Fin(0)],
     [apply |-> TRUE, norm |-> Fin(2)]}

\* GossipPeer._recompute_and_apply_global_model
Recompute(pr, g) ==
    LET updates == GlobalInput(pr.lww) IN
    IF updates = EmptyDict THEN pr
    ELSE IF pr.last_global = NoGlobal
         THEN [pr EXCEPT !.last_global = updates, !.last_delta_norm = Fin(0)]
    ELSE IF updates = pr.last_global \/ ~g.apply THEN pr
    ELSE [pr EXCEPT !.last_global = updates, !.last_delta_norm = g.norm]

\* GossipPeer._publish_local_model
PublishLocalModel(pr, p) == [pr EXCEPT !.lww = LwwPut(pr.lww, ModelKey(p), pr.round_num)]

\* GossipPeer.__init__ and pre_start: the peer when its loops start
PeerNew(p, cfg) ==
    LET self_ep == Endpoint(SelfHost(cfg.host), PeerPort(p))
        base == LwwPut(LwwPut(LwwPut(LWWMapNew(PeerRank(p)), "peer_id", p),
                              "status", "active"), "model_meta", "meta")
        pr0 == [lww |-> base, round_num |-> 0, start_round |-> 0,
                known_peers |-> EmptyDict,
                peer_info |-> DictSet(EmptyDict, p, self_ep),
                seed_refs |-> {ep \in cfg.seed_peers : ep # self_ep},
                last_delta_norm |-> Fin(0), convergence_count |-> 0,
                stopped |-> FALSE, last_global |-> NoGlobal]
    IN Recompute(PublishLocalModel(pr0, p), [apply |-> TRUE, norm |-> Fin(0)])

GossipConfig(p, host, has_data, max_rounds) ==
    [host |-> host, has_data |-> has_data, max_rounds |-> max_rounds,
     seed_peers |-> {Endpoint("localhost", PeerPort(OtherPeer(p)))}]

\* GossipPeer._register_peer
RegisterPeer(pr, p, self_ep, msg) ==
    IF ~ValidId(msg.peer_id) \/ msg.peer_id = p THEN pr
    ELSE IF msg.host = self_ep.host /\ msg.port = self_ep.port THEN pr
    ELSE [pr EXCEPT !.peer_info = DictSet(@, msg.peer_id, Endpoint(msg.host, msg.port)),
                    !.known_peers = DictSet(@, msg.peer_id, Endpoint(msg.host, msg.port)),
                    !.seed_refs = @ \ {Endpoint(msg.host, msg.port)}]

\* GossipPeer._handle_gossip_state, membership piggybacking: the entries of
\* msg.peer_info that are stored
Learned(pr, p, self_ep, info) ==
    {id \in DOMAIN info :
        /\ ValidId(id) /\ info[id].host # "" 
        /\ id # p
        /\ ~(info[id].host = self_ep.host /\ info[id].port = self_ep.port)
        /\ id \notin DOMAIN pr.known_peers}

\* GossipPeer._handle_gossip_state
HandleGossipState(pr, p, self_ep, msg, g) ==
    LET merged == IF msg.has_lww THEN MergeState(pr.lww, msg.lww) ELSE pr.lww
        new == Learned(pr, p, self_ep, msg.peer_info)
        pr1 == [pr EXCEPT
                  !.lww = merged,
                  !.peer_info = [id \in (DOMAIN @) \cup new |->
                                    IF id \in new THEN msg.peer_info[id] ELSE @[id]],
                  !.known_peers = [id \in (DOMAIN @) \cup new |->
                                    IF id \in new THEN msg.peer_info[id] ELSE @[id]],
                  !.seed_refs = @ \ {msg.peer_info[id] : id \in new}]
    IN Recompute(pr1, g)

\* GossipPeer._can_run_more_rounds
CanRunMoreRounds(pr, cfg) ==
    cfg.max_rounds = NoLimit \/ pr.round_num - pr.start_round < cfg.max_rounds

\* the gossip loop's `while not self.stopped`
GossipLoopRuns(pr) == ~pr.stopped

\* mutant of TrainingLoopRuns: the stopped flag is not consulted
TrainingLoopIgnoresStop(pr, cfg) == CanRunMoreRounds(pr, cfg)

\* the training loop's `while not self.stopped and self._can_run_more_rounds()`
TrainingLoopRuns(pr, cfg) == ~pr.stopped /\ CanRunMoreRounds(pr, cfg)

\* the gossip loop's target_refs: known peers other than itself, and the
\* seed endpoints other than its own
TargetRefs(pr, p, self_ep) ==
    {[key |-> id, ep |-> pr.known_peers[id]] : id \in {x \in DOMAIN pr.known_peers : x # "" /\ x # p}}
    \cup {[key |-> "seed", ep |-> ep] : ep \in {x \in pr.seed_refs : x # self_ep}}

\* the peers whose ActorSystem accepts a connection to endpoint ep
Listening(ep) ==
    {q \in GossipPeers :
        /\ ep.port = PeerPort(q)
        /\ ep.host \in Loopback \/ ep.host = gcfg[q].host}

GossipMsg(pr, p, delta_norm) ==
    [type |-> "GossipState", peer_id |-> p, round_num |-> pr.round_num,
     delta_norm |-> delta_norm, has_lww |-> TRUE, lww |-> pr.lww,
     peer_info |-> [id \in {x \in DOMAIN pr.peer_info : ValidId(x)} |-> pr.peer_info[id]]]

RECURSIVE Repeat(_, _)
Repeat(x, n) == IF n = 0 THEN <<>> ELSE <<x>> \o Repeat(x, n - 1)

\* two peers started with the given configurations, nothing sent yet
GossipStart(cfg) ==
    /\ gcfg = cfg
    /\ peer = [p \in GossipPeers |-> PeerNew(p, cfg[p])]
    /\ net = [p \in GossipPeers |-> <<>>]
    /\ sent = [p \in GossipPeers |-> 0]
    /\ gossips = [p \in GossipPeers |-> 0]

GossipInit ==
    \E has_data \in [GossipPeers -> BOOLEAN], max_rounds \in [GossipPeers -> MaxRoundsChoices] :
        GossipStart([p \in GossipPeers |-> GossipConfig(p, "localhost", has_data[p], max_rounds[p])])

GossipIdle == GossipStart([p \in GossipPeers |-> GossipConfig(p, "localhost", FALSE, 0)])

\* One iteration of _autonomous_gossip_loop, from the end of the sleep to the
\* next loop test: sample last_delta_norm, tell GossipState to
\* min(fanout, len(target_refs)) targets picked at random, stop on convergence.
GossipIteration(p, targets) ==
    LET pr == peer[p]
        trefs == TargetRefs(pr, p, SelfEndpoint(p))
        c == UpdateConvergence([convergence_count |-> pr.convergence_count,
                                last_delta_norm |-> pr.last_delta_norm], pr.last_delta_norm)
        msg == GossipMsg(pr, p, pr.last_delta_norm)
    IN
    /\ gossips[p] < MaxGossips
    /\ GossipLoopRuns(pr)
    /\ targets \subseteq trefs
    /\ Cardinality(targets) = Min2(Fanout, Cardinality(trefs))
    /\ gossips' = [gossips EXCEPT ![p] = @ + 1]
    /\ sent' = [sent EXCEPT ![p] = @ + Cardinality(targets)]
    /\ net' = [q \in GossipPeers |->
                  net[q] \o Repeat(msg, Cardinality({t \in targets : q \in Listening(t.ep)}))]
    /\ peer' = [peer EXCEPT ![p] =
                   [pr EXCEPT !.convergence_count = c.convergence_count,
                              !.last_delta_norm = c.last_delta_norm,
                              !.stopped = IsConverged(c)]]
    /\ UNCHANGED gcfg
    /\ UNCHANGED exceptGossipVars

\* One iteration of _autonomous_training_loop, up to its sleep.
TrainRound(p, g1, g2) ==
    LET pr == peer[p]
        before == Recompute(pr, g1)
        trained == PublishLocalModel([before EXCEPT !.round_num = @ + 1], p)
        after == Recompute(trained, g2)
    IN
    /\ pr.round_num < MaxTrain
    /\ gcfg[p].has_data
    /\ TrainingLoopRuns(pr, gcfg[p])
    /\ peer' = [peer EXCEPT ![p] =
                   [after EXCEPT !.last_delta_norm =
                        IF after.last_global = before.last_global THEN Fin(0) ELSE g2.norm]]
    /\ UNCHANGED <<gcfg, net, sent, gossips>>
    /\ UNCHANGED exceptGossipVars

\* The peer's behaviour takes the oldest GossipState sent to it.
ReceiveGossip(p, g) ==
    /\ net[p] # <<>>
    /\ peer' = [peer EXCEPT ![p] = HandleGossipState(peer[p], p, SelfEndpoint(p), Head(net[p]), g)]
    /\ net' = [net EXCEPT ![p] = Tail(@)]
    /\ UNCHANGED <<gcfg, sent, gossips>>
    /\ UNCHANGED exceptGossipVars

---------------------------------------------------------------------------
(***************************************************************************)
(* Membership of a gossip peer under arbitrary GossipPeerJoin messages and *)
(* arbitrary peer_info entries in GossipState messages.  The peers'        *)
(* ActorSystems may be bound to any host.                                  *)
(***************************************************************************)
\* peer ids a message can carry: the peers, the empty id, an id with a colon
MemberIds == GossipPeers \cup {""} \cup ColonIds

\* hosts a message can carry ("" stands for a missing host)
MsgHosts == Hosts \cup {""}

GossipPeerJoin(id, host, port) ==
    [type |-> "GossipPeerJoin", peer_id |-> id, host |-> host, port |-> port]

\* a GossipState with no CRDT deltas and one peer_info entry
MembershipGossip(pr, sender, id, host, port) ==
    [type |-> "GossipState", peer_id |-> sender, round_num |-> 0, delta_norm |-> Fin(0),
     has_lww |-> FALSE, lww |-> pr.lww,
     peer_info |-> DictSet(EmptyDict, id, Endpoint(host, port))]

MemberInit ==
    \E host \in [GossipPeers -> Hosts] :
        GossipStart([p \in GossipPeers |-> GossipConfig(p, host[p], FALSE, 0)])

\* the peer's behaviour handles a GossipPeerJoin
ReceiveJoin(p, id, host, port) ==
    /\ host # ""
    /\ peer' = [peer EXCEPT ![p] =
                   RegisterPeer(peer[p], p, SelfEndpoint(p), GossipPeerJoin(id, host, port))]
    /\ UNCHANGED <<gcfg, net, sent, gossips>>
    /\ UNCHANGED exceptGossipVars

\* the peer's behaviour handles a GossipState carrying a peer_info entry
ReceiveMembership(p, id, host, port) ==
    /\ peer' = [peer EXCEPT ![p] =
                   HandleGossipState(peer[p], p, SelfEndpoint(p),
                                     MembershipGossip(peer[p], OtherPeer(p), id, host, port),
                                     [apply |-> FALSE, norm |-> Fin(0)])]
    /\ UNCHANGED <<gcfg, net, sent, gossips>>
    /\ UNCHANGED exceptGossipVars

---------------------------------------------------------------------------
(***************************************************************************)
(* The send and receive paths of one ActorSystem                           *)
(* (src/actor/actor_system.py): ActorRef.tell starts one task per message, *)
(* _deliver_local or _send_remote; both run the send interceptors first.   *)
(* _send_remote keeps one cache entry per remote address.  The local actor *)
(* "counter" takes its messages through the receive interceptors.  A       *)
(* message is [null, id, count]: id is the number of the tell() call that  *)
(* sent it, count the field of Ping the interceptors of the tests read and *)
(* change.                                                                 *)
(***************************************************************************)
\* tell() calls made in a run
MaxTells == 3

\* remote addresses (host, port) of the refs in use
Addrs == {"s1"}
LocalActor == "counter"
\* the actor a remote ref names
RemoteActor == "counter"
Targets == Addrs \cup {LocalActor}

\* Ping.count of the messages told
Counts == {1, 2, 5}

\* an interceptor's `return None`
Null == [null |-> TRUE, id |-> 0, count |-> 0]

Ping(id, count) == [null |-> FALSE, id |-> id, count |-> count]

\* the interceptors of the tests: mw(actor_id, msg)
CallMiddleware(mw, actor_id, msg) ==
    CASE mw = "logging_middleware" -> msg
      [] mw = "filter_middleware" -> IF msg.count > 3 THEN Null ELSE msg
      [] mw = "transform_middleware" -> [msg EXCEPT !.count = @ * 2]
      [] mw = "block_all" -> Null

\* the lists add_send_middleware / add_receive_middleware have built
SendChains ==
    {<<>>, <<"transform_middleware", "filter_middleware">>,
     <<"filter_middleware", "transform_middleware">>, <<"logging_middleware", "block_all">>}

ReceiveChains == {<<>>, <<"filter_middleware">>, <<"block_all">>}

RECURSIVE ApplyMiddlewareUnchecked(_, _, _)
\* mutant of ApplyMiddleware: a null result does not end the loop, the
\* message goes on unchanged
ApplyMiddlewareUnchecked(chain, actor_id, msg) ==
    IF chain = <<>> THEN msg
    ELSE LET out == CallMiddleware(Head(chain), actor_id, msg) IN
         ApplyMiddlewareUnchecked(Tail(chain), actor_id, IF out.null THEN msg ELSE out)

RECURSIVE ApplyMiddleware(_, _, _)
\* _apply_send_middleware and _apply_receive_middleware (the same loop over
\* the two lists): the interceptors run in list order, each on the previous
\* one's result; the first null result is returned at once
ApplyMiddleware(chain, actor_id, msg) ==
    IF chain = <<>> THEN msg
    ELSE LET out == CallMiddleware(Head(chain), actor_id, msg) IN
         IF out.null THEN Null ELSE ApplyMiddleware(Tail(chain), actor_id, out)

\* no connection cached for an address
NoConn == 0

SysInit ==
    /\ send_middleware \in SendChains
    /\ receive_middleware \in ReceiveChains
    /\ tells = <<>>
    /\ sendTasks = <<>>
    /\ remote_connections = [a \in Addrs |-> NoConn]
    /\ dials = [a \in Addrs |-> 0]
    /\ raised = [a \in Addrs |-> FALSE]
    /\ written = <<>>
    /\ box = <<>>
    /\ handled = <<>>
    /\ skipped = <<>>

SysIdle ==
    /\ send_middleware = <<>>
    /\ receive_middleware = <<>>
    /\ tells = <<>>
    /\ sendTasks = <<>>
    /\ remote_connections = [a \in Addrs |-> NoConn]
    /\ dials = [a \in Addrs |-> 0]
    /\ raised = [a \in Addrs |-> FALSE]
    /\ written = <<>>
    /\ box = <<>>
    /\ handled = <<>>
    /\ skipped = <<>>

\* the tasks whose first step has not run; the event loop runs first steps in
\* the order the tasks were created
NewTasks == {t \in 1..Len(sendTasks) : sendTasks[t].pc = "new"}

FirstNew(t) == t \in NewTasks /\ \A u \in NewTasks : t <= u

\* ActorRef.tell: one task per call, _send_remote for a remote ref and
\* _deliver_local for a local one
Tell(target, count) ==
    /\ Len(tells) < MaxTells
    /\ tells' = Append(tells, [target |-> target, count |-> count])
    /\ sendTasks' = Append(sendTasks, [pc |-> "new", target |-> target,
                                       msg |-> Ping(Len(tells) + 1, count)])
    /\ UNCHANGED <<send_middleware, receive_middleware, remote_connections, dials, raised,
                   written, box, handled, skipped>>
    /\ UNCHANGED exceptSysVars

\* _deliver_local: the send interceptors, then Mailbox.put (the mailbox of the
\* registered actor; with at most MaxTells messages it is never full)
DeliverLocal(t) ==
    /\ FirstNew(t) /\ sendTasks[t].target = LocalActor
    /\ LET msg == ApplyMiddleware(send_middleware, LocalActor, sendTasks[t].msg) IN
       /\ box' = IF msg.null THEN box ELSE Append(box, msg)
       /\ sendTasks' = [sendTasks EXCEPT ![t].pc = "done", ![t].msg = msg]
    /\ UNCHANGED <<send_middleware, receive_middleware, tells, remote_connections, dials,
                   raised, written, handled, skipped>>
    /\ UNCHANGED exceptSysVars

\* _send_remote from its start: the send interceptors; with no cache entry
\* for the address the task calls open_connection and suspends, else it
\* writes on the cached connection (write or drain may raise: the handler
\* pops the cache entry)
SendRemote(t, raises) ==
    /\ FirstNew(t) /\ sendTasks[t].target \in Addrs
    /\ LET addr == sendTasks[t].target
           msg == ApplyMiddleware(send_middleware, RemoteActor, sendTasks[t].msg)
       IN IF msg.null
          THEN /\ ~raises
               /\ sendTasks' = [sendTasks EXCEPT ![t].pc = "done", ![t].msg = msg]
               /\ UNCHANGED <<remote_connections, dials, raised, written>>
          ELSE IF remote_connections[addr] = NoConn
          THEN /\ ~raises
               /\ sendTasks' = [sendTasks EXCEPT ![t].pc = "dialing", ![t].msg = msg]
               /\ dials' = [dials EXCEPT ![addr] = @ + 1]
               /\ UNCHANGED <<remote_connections, raised, written>>
          ELSE /\ sendTasks' = [sendTasks EXCEPT ![t].pc = "done", ![t].msg = msg]
               /\ IF raises
                  THEN /\ remote_connections' = [remote_connections EXCEPT ![addr] = NoConn]
                       /\ raised' = [raised EXCEPT ![addr] = TRUE]
                       /\ UNCHANGED written
                  ELSE /\ written' = Append(written, [addr |-> addr, conn |-> remote_connections[addr], msg |-> msg])
                       /\ UNCHANGED <<remote_connections, raised>>
               /\ UNCHANGED dials
    /\ UNCHANGED <<send_middleware, receive_middleware, tells, box, handled, skipped>>
    /\ UNCHANGED exceptSysVars

\* _send_remote after open_connection: the new connection (known by the task
\* that dialled it) replaces the cache entry and the frame is written on it;
\* if the dial, the write or the drain raises the entry is popped
DialDone(t, raises) ==
    /\ t \in 1..Len(sendTasks) /\ sendTasks[t].pc = "dialing"
    /\ LET addr == sendTasks[t].target IN
       /\ sendTasks' = [sendTasks EXCEPT ![t].pc = "done"]
       /\ IF raises
          THEN /\ remote_connections' = [remote_connections EXCEPT ![addr] = NoConn]
               /\ raised' = [raised EXCEPT ![addr] = TRUE]
               /\ UNCHANGED written
          ELSE /\ remote_connections' = [remote_connections EXCEPT ![addr] = t]
               /\ written' = Append(written, [addr |-> addr, conn |-> t, msg |-> sendTasks[t].msg])
               /\ UNCHANGED raised
    /\ UNCHANGED <<send_middleware, receive_middleware, tells, dials, box, handled, skipped>>
    /\ UNCHANGED exceptSysVars

\* one pass of the loop of _run_actor: mailbox.get(), the receive
\* interceptors, then either `continue` on a null result or the behaviour
RunActor ==
    /\ box # <<>>
    /\ LET msg == ApplyMiddleware(receive_middleware, LocalActor, Head(box)) IN
       /\ box' = Tail(box)
       /\ handled' = IF msg.null THEN handled ELSE Append(handled, msg)
       /\ skipped' = IF msg.null THEN Append(skipped, Head(box)) ELSE skipped
    /\ UNCHANGED <<send_middleware, receive_middleware, tells, sendTasks, remote_connections,
                   dials, raised, written>>
    /\ UNCHANGED exceptSysVars

---------------------------------------------------------------------------
(***************************************************************************)
(* The receiving ActorSystem at a remote address                           *)
(* (src/actor/actor_system.py): one _handle_connection task per accepted   *)
(* connection reads that connection's frames in the order written and      *)
(* hands each to _deliver_local; the target actor takes its mailbox in     *)
(* order.  The tasks of different connections interleave freely.  The      *)
(* receiving system has no interceptors installed.                         *)
(***************************************************************************)
\* the connections a sender may open: one per _send_remote task
Conns == 1..MaxTells

\* the frames written on connection c, in the order written
FramesOn(c) == SelectSeq(written, LAMBDA f : f.conn = c)

WireInit ==
    /\ rread = [c \in Conns |-> 0]
    /\ rbox = <<>>
    /\ rhandled = <<>>

\* _handle_connection of connection c: readexactly, pickle.loads,
\* _deliver_local -> Mailbox.put
HandleConnection(c) ==
    /\ rread[c] < Len(FramesOn(c))
    /\ rread' = [rread EXCEPT ![c] = @ + 1]
    /\ rbox' = Append(rbox, FramesOn(c)[rread[c] + 1].msg)
    /\ UNCHANGED rhandled
    /\ UNCHANGED exceptWireVars

\* one pass of the loop of _run_actor of the target actor
RemoteRunActor ==
    /\ rbox # <<>>
    /\ rbox' = Tail(rbox)
    /\ rhandled' = Append(rhandled, Head(rbox))
    /\ UNCHANGED rread
    /\ UNCHANGED exceptWireVars

---------------------------------------------------------------------------
(***************************************************************************)
(* The registry of an ActorSystem with parent and child actors             *)
(* (src/actor/actor_system.py): actor_of, ActorContext.actor_of, stop and  *)
(* the _stop_actor coroutine with its recursion into the children.  An     *)
(* actor, a mailbox and a task are numbers: object k is the k-th of its    *)
(* kind constructed; 0 says that the map has no entry for the id.  One     *)
(* teardown runs at a time.  A behaviour spawns a child only under an id   *)
(* that is none of its ancestors (on a cycle _stop_actor recurses without  *)
(* end).                                                                   *)
(***************************************************************************)
ActorIds == {"a", "b", "c"}

\* actor_of calls (of the system and of contexts) in a run
MaxActorOf == 4
\* stop() calls in a run
MaxStopCalls == 2

\* the three maps of the system and the numbers of objects constructed
Maps(as, ms, ts, n) == [actors |-> as, mailboxes |-> ms, tasks |-> ts, made |-> n]

\* mutant of ActorOf: no test for an id that is registered already
ActorOfAnew(reg, id) ==
    [actors |-> [reg.actors EXCEPT ![id] = reg.made.actors + 1],
     mailboxes |-> [reg.mailboxes EXCEPT ![id] = reg.made.mailboxes + 1],
     tasks |-> [reg.tasks EXCEPT ![id] = reg.made.tasks + 1],
     made |-> [actors |-> reg.made.actors + 1, mailboxes |-> reg.made.mailboxes + 1,
               tasks |-> reg.made.tasks + 1]]

\* ActorSystem.actor_of: the maps after the call
ActorOf(reg, id) ==
    IF reg.actors[id] # NoInstance THEN reg
    ELSE [actors |-> [reg.actors EXCEPT ![id] = reg.made.actors + 1],
          mailboxes |-> [reg.mailboxes EXCEPT ![id] = reg.made.mailboxes + 1],
          tasks |-> [reg.tasks EXCEPT ![id] = reg.made.tasks + 1],
          made |-> [actors |-> reg.made.actors + 1, mailboxes |-> reg.made.mailboxes + 1,
                    tasks |-> reg.made.tasks + 1]]

\* keys of context.children of the actor registered under id, in dict order
ChildIds(id) == {kids[id][i] : i \in 1..Len(kids[id])}

\* the ids below id in the tree (three levels suffice for three ids)
Descendants(id) ==
    LET l1 == ChildIds(id)
        l2 == l1 \cup UNION {ChildIds(x) : x \in l1}
    IN l2 \cup UNION {ChildIds(x) : x \in l2}

\* a frame of _stop_actor: the id, the actor it read from the map, the
\* children of its snapshot it has not stopped yet, the task it awaits
Frame(id, as, ks) == [id |-> id, actor |-> as[id], todo |-> ks[id], awaits |-> 0]

RECURSIVE Descend(_, _, _)
\* _stop_actor running without suspending: the for loop takes the next
\* child of the snapshot, the call returns at once for an id that is not
\* registered and goes down into one that is; the result is the stack at
\* the frame that is about to cancel its actor's task (as, ks: _actors and
\* the children dicts as they are when it runs)
Descend(stack, as, ks) ==
    LET top == stack[Len(stack)] IN
    IF top.todo = <<>> THEN stack
    ELSE LET child_id == Head(top.todo)
             rest == [stack EXCEPT ![Len(stack)].todo = Tail(top.todo)]
         IN IF as[child_id] = NoInstance THEN Descend(rest, as, ks)
            ELSE Descend(Append(rest, Frame(child_id, as, ks)), as, ks)

\* `self._tasks[actor_id].cancel()` and `await self._tasks[actor_id]` of the
\* top frame
Awaiting(stack) == [stack EXCEPT ![Len(stack)].awaits = tasks[stack[Len(stack)].id]]

NoStack == <<>>

TreeInit ==
    /\ actors = [id \in ActorIds |-> NoInstance]
    /\ mailboxes = [id \in ActorIds |-> 0]
    /\ tasks = [id \in ActorIds |-> 0]
    /\ made = [actors |-> 0, mailboxes |-> 0, tasks |-> 0]
    /\ kids = [id \in ActorIds |-> <<>>]
    /\ cancelled = {}
    /\ ended = {}
    /\ post_stopped = {}
    /\ stopTask = [pc |-> "none", root |-> "a", stack |-> NoStack]
    /\ stopCalls = 0
    /\ actorOfCalls = <<>>

\* the task of the actor registered under id has not been cancelled
Running(id) == actors[id] # NoInstance /\ tasks[id] \notin cancelled

\* system.actor_of(cls, id) from outside the actors
SystemActorOfCall(id) ==
    /\ Len(actorOfCalls) < MaxActorOf
    /\ LET reg == ActorOf(Maps(actors, mailboxes, tasks, made), id) IN
       /\ actors' = reg.actors
       /\ mailboxes' = reg.mailboxes
       /\ tasks' = reg.tasks
       /\ made' = reg.made
    /\ actorOfCalls' = Append(actorOfCalls, [id |-> id, existed |-> actors[id] # NoInstance])
    /\ UNCHANGED <<kids, cancelled, ended, post_stopped, stopTask, stopCalls>>
    /\ UNCHANGED exceptTreeVars

\* self.context.actor_of(cls, id) in a behaviour of the actor parent:
\* ActorSystem.actor_of, then the ref is stored in context.children
ContextActorOf(parent, id) ==
    /\ Len(actorOfCalls) < MaxActorOf
    /\ Running(parent)
    /\ id # parent /\ parent \notin Descendants(id)
    /\ LET reg == ActorOf(Maps(actors, mailboxes, tasks, made), id) IN
       /\ actors' = reg.actors
       /\ mailboxes' = reg.mailboxes
       /\ tasks' = reg.tasks
       /\ made' = reg.made
    /\ kids' = [kids EXCEPT ![parent] = IF id \in ChildIds(parent) THEN @ ELSE Append(@, id)]
    /\ actorOfCalls' = Append(actorOfCalls, [id |-> id, existed |-> actors[id] # NoInstance])
    /\ UNCHANGED <<cancelled, ended, post_stopped, stopTask, stopCalls>>
    /\ UNCHANGED exceptTreeVars

\* ActorSystem.stop: a _stop_actor task is created for a registered id
StopCall(id) ==
    /\ stopCalls < MaxStopCalls
    /\ stopTask.pc \in {"none", "done"}
    /\ stopCalls' = stopCalls + 1
    /\ stopTask' = IF actors[id] = NoInstance THEN stopTask
                   ELSE [pc |-> "new", root |-> id, stack |-> NoStack]
    /\ UNCHANGED <<actors, mailboxes, tasks, made, kids, cancelled, ended, post_stopped,
                   actorOfCalls>>
    /\ UNCHANGED exceptTreeVars

\* _stop_actor from its start to its first suspension: down the snapshots of
\* the children to the first actor without registered children, whose task
\* it cancels and awaits
StopActorStart ==
    /\ stopTask.pc = "new"
    /\ IF actors[stopTask.root] = NoInstance
       THEN /\ stopTask' = [stopTask EXCEPT !.pc = "done"]
            /\ UNCHANGED cancelled
       ELSE LET stack == Awaiting(Descend(<<Frame(stopTask.root, actors, kids)>>, actors, kids)) IN
            /\ stopTask' = [stopTask EXCEPT !.pc = "await", !.stack = stack]
            /\ cancelled' = cancelled \cup {stack[Len(stack)].awaits}
    /\ UNCHANGED <<actors, mailboxes, tasks, made, kids, ended, post_stopped, stopCalls,
                   actorOfCalls>>
    /\ UNCHANGED exceptTreeVars

\* _run_actor of a cancelled task: CancelledError ends the loop and the task
TaskEnds(k) ==
    /\ k \in cancelled \ ended
    /\ ended' = ended \cup {k}
    /\ UNCHANGED <<actors, mailboxes, tasks, made, kids, cancelled, post_stopped, stopTask,
                   stopCalls, actorOfCalls>>
    /\ UNCHANGED exceptTreeVars

\* _stop_actor resumed by the end of the awaited task: post_stop of the
\* frame's actor, the three del statements, return to the caller's frame,
\* which goes on with its snapshot and then cancels and awaits its own task
StopActorResume ==
    /\ stopTask.pc = "await"
    /\ LET stack == stopTask.stack
           top == stack[Len(stack)]
           below == SubSeq(stack, 1, Len(stack) - 1)
       IN /\ top.awaits \in ended
          /\ post_stopped' = post_stopped \cup {top.actor}
          /\ actors' = [actors EXCEPT ![top.id] = NoInstance]
          /\ mailboxes' = [mailboxes EXCEPT ![top.id] = 0]
          /\ tasks' = [tasks EXCEPT ![top.id] = 0]
          /\ kids' = [kids EXCEPT ![top.id] = <<>>]
          /\ IF below = <<>>
             THEN /\ stopTask' = [stopTask EXCEPT !.pc = "done", !.stack = NoStack]
                  /\ UNCHANGED cancelled
             ELSE LET next == Awaiting(Descend(below, [actors EXCEPT ![top.id] = NoInstance],
                                                [kids EXCEPT ![top.id] = <<>>])) IN
                  /\ stopTask' = [stopTask EXCEPT !.stack = next]
                  /\ cancelled' = cancelled \cup {next[Len(next)].awaits}
    /\ UNCHANGED <<made, ended, stopCalls, actorOfCalls>>
    /\ UNCHANGED exceptTreeVars

---------------------------------------------------------------------------
(***************************************************************************)
(* become / unbecome (src/actor/actor_system.py, Actor) on the actor       *)
(* StatefulActor of src/tests/fixtures.py: its declared receive turns to   *)
(* working_state on a Ping, working_state turns back on a Pong.  A message *)
(* is [n, type]: the n-th message told to the actor.                       *)
(***************************************************************************)
\* messages told to the actor in a run
MaxStateful == 4

MsgTypes == {"Ping", "Pong", "Message"}

\* Actor.become
Become(behavior) == behavior

\* Actor.unbecome
Unbecome == "receive"

\* mutant of Invoked: the loop calls the declared receive whatever
\* _behavior holds
InvokedDeclared(b) == "receive"

\* _run_actor, `await actor._behavior(msg)`: the function the loop calls
Invoked(b) == b

\* StatefulActor.receive and StatefulActor.working_state: the actor's
\* fields after behaviour b has handled msg
StatefulBehavior(a, b, msg) ==
    IF b = "receive" /\ msg.type = "Ping"
    THEN [state |-> "working", behavior |-> Become("working_state")]
    ELSE IF b = "working_state" /\ msg.type = "Pong"
    THEN [state |-> "idle", behavior |-> Unbecome]
    ELSE a

\* the swap the invocation of behaviour b on msg makes, if any
Swap(b, msg) ==
    IF b = "receive" /\ msg.type = "Ping" THEN "become"
    ELSE IF b = "working_state" /\ msg.type = "Pong" THEN "unbecome"
    ELSE "none"

BecomeInit ==
    /\ stateful = [state |-> "idle", behavior |-> "receive"]
    /\ sfTold = <<>>
    /\ sfReady = <<>>
    /\ sfBox = <<>>
    /\ sfLog = <<>>

\* ref.tell(msg): one _deliver_local task, behind the ones created before
TellStateful(type) ==
    /\ Len(sfTold) < MaxStateful
    /\ sfTold' = Append(sfTold, [n |-> Len(sfTold) + 1, type |-> type])
    /\ sfReady' = Append(sfReady, [n |-> Len(sfTold) + 1, type |-> type])
    /\ UNCHANGED <<stateful, sfBox, sfLog>>
    /\ UNCHANGED exceptBecomeVars

\* _deliver_local of the oldest task: Mailbox.put (never full here)
DeliverStateful ==
    /\ sfReady # <<>>
    /\ sfReady' = Tail(sfReady)
    /\ sfBox' = Append(sfBox, Head(sfReady))
    /\ UNCHANGED <<stateful, sfTold, sfLog>>
    /\ UNCHANGED exceptBecomeVars

\* one pass of the loop of _run_actor: mailbox.get(), then the function
\* _behavior holds now is called on the message
HandleStateful ==
    /\ sfBox # <<>>
    /\ LET msg == Head(sfBox)
           b == Invoked(stateful.behavior)
       IN /\ stateful' = StatefulBehavior(stateful, b, msg)
          /\ sfLog' = Append(sfLog, [msg |-> msg, by |-> b, swap |-> Swap(b, msg)])
    /\ sfBox' = Tail(sfBox)
    /\ UNCHANGED <<sfTold, sfReady>>
    /\ UNCHANGED exceptBecomeVars

---------------------------------------------------------------------------
(***************************************************************************)
(* LWWMap replicas that exchange deltas and full snapshots                 *)
(* (src/fl/crdt.py): local put and delete, each followed by a get of the   *)
(* key, merge of a delta and merge_state of a snapshot of another replica. *)
(***************************************************************************)
\* the replicas "A" and "B"
LwwReplicas == {1, 2}

\* local put()/delete() calls over all replicas
MaxLocalOps == 3
\* merge()/merge_state() calls over all replicas
MaxLwwMerges == 3
\* snapshots taken with to_dict() and kept for later merges
MaxSnaps == 2

\* mutant of ToDict: a snapshot without the tombstones
ToDictData(m) ==
    [replica_id |-> m.replica_id, clock |-> m.clock, data |-> m.data,
     tombstones |-> EmptyDict]

\* LWWMap.to_dict: the snapshot of a replica
ToDict(m) ==
    [replica_id |-> m.replica_id, clock |-> m.clock, data |-> m.data,
     tombstones |-> m.tombstones]

NoOp == [n |-> 0, r |-> 1, type |-> "none", key |-> "k", value |-> None, got |-> None,
         before |-> LWWMapNew(1)]

LwwInit ==
    /\ lmap = [r \in LwwReplicas |-> LWWMapNew(r)]
    /\ lpub = {}
    /\ lsnaps = {}
    /\ lmerges = 0
    /\ lastOp = NoOp

\* replica r calls put(key, value) and then get(key)
LocalPut(r, key, value) ==
    /\ lastOp.n < MaxLocalOps
    /\ lmap' = [lmap EXCEPT ![r] = LwwPut(@, key, value)]
    /\ lpub' = lpub \cup {PutDelta(lmap[r], key, value)}
    /\ lastOp' = [n |-> lastOp.n + 1, r |-> r, type |-> "put", key |-> key, value |-> value,
                  got |-> LwwGet(LwwPut(lmap[r], key, value), key), before |-> lmap[r]]
    /\ UNCHANGED <<lsnaps, lmerges>>
    /\ UNCHANGED exceptLwwVars

\* replica r calls delete(key) and then get(key)
LocalDelete(r, key) ==
    /\ lastOp.n < MaxLocalOps
    /\ lmap' = [lmap EXCEPT ![r] = LwwDelete(@, key)]
    /\ lpub' = lpub \cup {DeleteDelta(lmap[r], key)}
    /\ lastOp' = [n |-> lastOp.n + 1, r |-> r, type |-> "delete", key |-> key, value |-> None,
                  got |-> LwwGet(LwwDelete(lmap[r], key), key), before |-> lmap[r]]
    /\ UNCHANGED <<lsnaps, lmerges>>
    /\ UNCHANGED exceptLwwVars

\* replica r takes a snapshot of itself for the others
TakeSnapshot(r) ==
    /\ Cardinality(lsnaps) < MaxSnaps
    /\ ToDict(lmap[r]) \notin lsnaps
    /\ lsnaps' = lsnaps \cup {ToDict(lmap[r])}
    /\ UNCHANGED <<lmap, lpub, lmerges, lastOp>>
    /\ UNCHANGED exceptLwwVars

\* replica r merges a delta of another replica
MergeDelta(r, d) ==
    /\ lmerges < MaxLwwMerges
    /\ d.ts.replica_id # r
    /\ lmap' = [lmap EXCEPT ![r] = LwwMerge(@, d)]
    /\ lmerges' = lmerges + 1
    /\ UNCHANGED <<lpub, lsnaps, lastOp>>
    /\ UNCHANGED exceptLwwVars

\* replica r calls merge_state with a snapshot of another replica
MergeSnapshot(r, s) ==
    /\ lmerges < MaxLwwMerges
    /\ s.replica_id # r
    /\ lmap' = [lmap EXCEPT ![r] = MergeState(@, s)]
    /\ lmerges' = lmerges + 1
    /\ UNCHANGED <<lpub, lsnaps, lastOp>>
    /\ UNCHANGED exceptLwwVars

---------------------------------------------------------------------------
(***************************************************************************)
(* PNCounter replicas (src/fl/crdt.py): increment and decrement of the     *)
(* replica's own entry, to_dict snapshots and merge of a snapshot.         *)
(***************************************************************************)
\* the replicas "n1", "n2" and "n3"
PnReplicas == {1, 2, 3}

\* increment()/decrement() calls over all replicas
MaxPnOps == 2
\* snapshots taken with to_dict() and kept for later merges
MaxPnSnaps == 3
\* merge() calls over all replicas
MaxPnMerges == 4

\* PNCounter.__init__: P and N hold a zero entry for the replica itself
PNCounterNew(r) == [replica_id |-> r, P |-> (r :> 0), N |-> (r :> 0)]

\* dict.get(rid, 0)
PnGet(m, rid) == IF rid \in DOMAIN m THEN m[rid] ELSE 0

RECURSIVE SumValues(_)
\* sum(d.values())
SumValues(m) ==
    IF DOMAIN m = {} THEN 0
    ELSE LET rid == CHOOSE x \in DOMAIN m : TRUE
         IN m[rid] + SumValues([x \in DOMAIN m \ {rid} |-> m[x]])

\* PNCounter.increment
PnIncrement(c) == [c EXCEPT !.P[c.replica_id] = @ + 1]

\* PNCounter.decrement
PnDecrement(c) == [c EXCEPT !.N[c.replica_id] = @ + 1]

\* a value that counts the increments only
PnValueP(c) == SumValues(c.P)

\* PNCounter.value
PnValue(c) == SumValues(c.P) - SumValues(c.N)

\* a merge loop that overwrites with the other map's count
MergeCountsOther(mine, other) ==
    [rid \in DOMAIN mine \cup DOMAIN other |->
        IF rid \in DOMAIN other THEN other[rid] ELSE mine[rid]]

\* one loop of PNCounter.merge: per replica id of the other map, the maximum
MergeCounts(mine, other) ==
    [rid \in DOMAIN mine \cup DOMAIN other |->
        IF rid \in DOMAIN other THEN Max2(PnGet(mine, rid), other[rid]) ELSE mine[rid]]

\* PNCounter.merge
PnMerge(c, other) ==
    [c EXCEPT !.P = MergeCounts(c.P, other.P), !.N = MergeCounts(c.N, other.N)]

\* PNCounter.to_dict
PnToDict(c) == [replica_id |-> c.replica_id, P |-> c.P, N |-> c.N, value |-> PnValue(c)]

PnInit ==
    /\ pn = [r \in PnReplicas |-> PNCounterNew(r)]
    /\ pnsnaps = {}
    /\ pnmerges = 0
    /\ incs = [r \in PnReplicas |-> 0]
    /\ decs = [r \in PnReplicas |-> 0]
    /\ heard = [r \in PnReplicas |-> [q \in PnReplicas |-> <<0, 0>>]]

PnOps == SumValues(incs) + SumValues(decs)

\* replica r calls increment()
IncrementAt(r) ==
    /\ PnOps < MaxPnOps
    /\ pn' = [pn EXCEPT ![r] = PnIncrement(@)]
    /\ incs' = [incs EXCEPT ![r] = @ + 1]
    /\ UNCHANGED <<pnsnaps, pnmerges, decs, heard>>
    /\ UNCHANGED exceptPnVars

\* replica r calls decrement()
DecrementAt(r) ==
    /\ PnOps < MaxPnOps
    /\ pn' = [pn EXCEPT ![r] = PnDecrement(@)]
    /\ decs' = [decs EXCEPT ![r] = @ + 1]
    /\ UNCHANGED <<pnsnaps, pnmerges, incs, heard>>
    /\ UNCHANGED exceptPnVars

\* replica r takes a snapshot of itself for the others
PnSnapshot(r) ==
    /\ Cardinality(pnsnaps) < MaxPnSnaps
    /\ PnToDict(pn[r]) \notin pnsnaps
    /\ pnsnaps' = pnsnaps \cup {PnToDict(pn[r])}
    /\ UNCHANGED <<pn, pnmerges, incs, decs, heard>>
    /\ UNCHANGED exceptPnVars

\* replica r merges a snapshot of another replica; heard records the own
\* counts of the snapshot's replica that r has merged directly
PnMergeAt(r, s) ==
    /\ pnmerges < MaxPnMerges
    /\ s.replica_id # r
    /\ pn' = [pn EXCEPT ![r] = PnMerge(@, s)]
    /\ pnmerges' = pnmerges + 1
    /\ heard' = [heard EXCEPT ![r][s.replica_id] =
                    <<Max2(@[1], s.P[s.replica_id]), Max2(@[2], s.N[s.replica_id])>>]
    /\ UNCHANGED <<pnsnaps, incs, decs>>
    /\ UNCHANGED exceptPnVars

---------------------------------------------------------------------------
(***************************************************************************)
(* GossipReporter (src/fl/gossip_reporter.py): an observer of the gossip   *)
(* network.  repOut is the sequence of messages the reporter hands to      *)
(* ActorRef.tell; repRounds and repGossips record what was delivered.      *)
(***************************************************************************)
\* GossipState.peer_id / HealthAck.actor_id values
RepPeers == {"peer-1", "peer-2"}

\* GossipState.round_num values
RepRounds == 0 .. 2

\* HealthAck.status values
RepStatuses == {"alive", "busy"}

\* messages delivered to the reporter
MaxRepMsgs == 3
\* reports written by the monitoring loop
MaxReports == 2

\* GossipReporterConfig.eval_interval
EvalInterval == 2

\* GossipReporterConfig.evaluator_ref
EvaluatorRefs == {None, "evaluator"}

\* self.peer_status[peer_id].update({...}) / [...][field] = value
StatusUpdate(status, id, fields) ==
    LET old == IF id \in DOMAIN status THEN status[id] ELSE EmptyDict
    IN DictSet(status, id,
               [f \in DOMAIN old \cup DOMAIN fields |->
                    IF f \in DOMAIN fields THEN fields[f] ELSE old[f]])

\* the condition under which the monitoring loop logs "Triggering evaluation"
TriggersEvaluation(ref, round) == ref # None /\ round % EvalInterval = 0

\* a monitoring loop that tells the evaluator instead of logging
ReportTells(out, ref, round) ==
    IF TriggersEvaluation(ref, round)
    THEN Append(out, [to |-> ref, type |-> "EvalRequest", round |-> round])
    ELSE out

\* the messages told by one pass of the monitoring loop: it only logs
ReportOut(out, ref, round) == out

RepInit ==
    /\ peer_status = EmptyDict
    /\ global_round = 0
    /\ total_gossips = 0
    /\ monitor_task = "none"
    /\ evaluator_cfg = None
    /\ repOut = <<>>
    /\ repNow = 0
    /\ repRounds = {}
    /\ repGossips = 0
    /\ reports = 0

\* a reporter constructed with either configuration
RepStart ==
    /\ peer_status = EmptyDict
    /\ global_round = 0
    /\ total_gossips = 0
    /\ monitor_task = "none"
    /\ evaluator_cfg \in EvaluatorRefs
    /\ repOut = <<>>
    /\ repNow = 0
    /\ repRounds = {}
    /\ repGossips = 0
    /\ reports = 0

\* GossipReporter.pre_start
RepPreStart ==
    /\ monitor_task = "none"
    /\ monitor_task' = "running"
    /\ UNCHANGED <<peer_status, global_round, total_gossips, evaluator_cfg, repOut, repNow,
                   repRounds, repGossips, reports>>
    /\ UNCHANGED exceptRepVars

\* receive(GossipState) -> _handle_peer_update
HandlePeerUpdate(peer_id, round_num, delta_count, delta_norm) ==
    /\ monitor_task # "none"
    /\ repNow < MaxRepMsgs
    /\ total_gossips' = total_gossips + 1
    /\ peer_status' = StatusUpdate(peer_status, peer_id,
                          [round |-> round_num, last_seen |-> repNow,
                           delta_count |-> delta_count, delta_norm |-> delta_norm])
    /\ global_round' = IF round_num > global_round THEN round_num ELSE global_round
    /\ repNow' = repNow + 1
    /\ repRounds' = repRounds \cup {round_num}
    /\ repGossips' = repGossips + 1
    /\ UNCHANGED <<monitor_task, evaluator_cfg, repOut, reports>>
    /\ UNCHANGED exceptRepVars

\* receive(HealthAck) -> _handle_health_ack
HandleHealthAck(actor_id, status) ==
    /\ monitor_task # "none"
    /\ repNow < MaxRepMsgs
    /\ peer_status' = StatusUpdate(peer_status, actor_id,
                          [last_seen |-> repNow, status |-> status])
    /\ repNow' = repNow + 1
    /\ UNCHANGED <<global_round, total_gossips, monitor_task, evaluator_cfg, repOut,
                   repRounds, repGossips, reports>>
    /\ UNCHANGED exceptRepVars

\* one pass of _monitoring_loop
MonitoringLoop ==
    /\ monitor_task = "running"
    /\ reports < MaxReports
    /\ reports' = reports + 1
    /\ repOut' = ReportOut(repOut, evaluator_cfg, global_round)
    /\ UNCHANGED <<peer_status, global_round, total_gossips, monitor_task, evaluator_cfg,
                   repNow, repRounds, repGossips>>
    /\ UNCHANGED exceptRepVars

\* receive(Shutdown) and post_stop -> _shutdown
RepShutdown ==
    /\ monitor_task = "running"
    /\ monitor_task' = "cancelled"
    /\ UNCHANGED <<peer_status, global_round, total_gossips, evaluator_cfg, repOut, repNow,
                   repRounds, repGossips, reports>>
    /\ UNCHANGED exceptRepVars

---------------------------------------------------------------------------
(***************************************************************************)
(* A run of the round coordinator with exactly num_workers worker          *)
(* processes and one start of the aggregator, in which the evaluator       *)
(* process may be started again (Evaluator.pre_start registers on every    *)
(* start).                                                                 *)
(***************************************************************************)
\* the worker processes of the run
RunWorkers == {"w1", "w2"}

\* the aggregator's only start
AggregatorStart == regs["agg"] = 0 /\ AggregatorRegister

\* Evaluator.pre_start of a restarted evaluator: it registers again
EvaluatorRestart ==
    /\ regs["eval"] >= 1 /\ regs["eval"] < MaxRegs
    /\ regs' = [regs EXCEPT !["eval"] = @ + 1]
    /\ inbox' = [inbox EXCEPT !["eval"] = Append(@, RegisterEvaluator)]
    /\ UNCHANGED <<prov, wbox, toAgg, toEval, forwarded>>
    /\ UNCHANGED <<crdtVars, rtVars, supVars, newVars>>

\* ModelUpdate messages told by actors that never registered
MaxStrays == 1

StrayInit == strays = 0

\* an actor that is not in the coordinator's worker map tells it a
\* ModelUpdate for round k
StrayUpdate(w, k) ==
    /\ strays < MaxStrays
    /\ regs[w] = 0
    /\ strays' = strays + 1
    /\ inbox' = [inbox EXCEPT ![w] = Append(@, ModelUpdate(w, k))]
    /\ UNCHANGED <<prov, wbox, toAgg, toEval, regs, forwarded>>
    /\ UNCHANGED <<crdtVars, rtVars, supVars, otherStrayVars>>

---------------------------------------------------------------------------
(***************************************************************************)
(* The coordinator's failure detection (src/fl/provider.py):               *)
(* _periodic_health_check, _check_health_timeout and the HealthAck branch  *)
(* of receive.  Time is the event loop's clock in whole ticks.             *)
(***************************************************************************)
Roles == {"aggregator", "evaluator"}

\* the event loop's clock stops here
MaxNow == 3
\* iterations of the health loop
MaxHealthIters == 2

\* Provider._health_timeout, in ticks
HealthTimeout == 1

\* Provider._check_health_timeout after its sleep: the refs it leaves
CheckHealthTimeout(refs, acks, target, sent_at) ==
    IF target \in DOMAIN acks /\ acks[target] <= sent_at /\ refs[target]
    THEN [refs EXCEPT ![target] = FALSE]
    ELSE refs

HealthInit ==
    /\ href = [r \in Roles |-> FALSE]
    /\ last_health_ack = EmptyDict
    /\ hnow = 0
    /\ hpings = [r \in Roles |-> 0]
    /\ htasks = {}
    /\ hiters = 0

\* _handle_register_aggregator / _handle_register_evaluator: the ref and the
\* id of the role are stored
RegisterRole(r) ==
    /\ ~href[r]
    /\ href' = [href EXCEPT ![r] = TRUE]
    /\ UNCHANGED <<last_health_ack, hnow, hpings, htasks, hiters>>
    /\ UNCHANGED exceptHealthVars

\* receive(HealthAck) with the actor_id of a registered role
ProviderHealthAck(r) ==
    /\ href[r]
    /\ last_health_ack' = DictSet(last_health_ack, r, hnow)
    /\ UNCHANGED <<href, hnow, hpings, htasks, hiters>>
    /\ UNCHANGED exceptHealthVars

\* the event loop's clock advances
HealthTick ==
    /\ hnow < MaxNow
    /\ hnow' = hnow + 1
    /\ UNCHANGED <<href, last_health_ack, hpings, htasks, hiters>>
    /\ UNCHANGED exceptHealthVars

\* the roles one iteration of the loop pings when tell() does not raise
Pinged == {r \in Roles : href[r]}

\* One iteration of the `while True` of _periodic_health_check.  The first
\* ref that is set is told HealthPing(), sender=...: ActorRef.tell takes the
\* message only, the call raises TypeError, the handler around the body logs
\* it and the next iteration starts.  No ping is told and no
\* _check_health_timeout task is created.
PeriodicHealthCheck ==
    /\ hiters < MaxHealthIters
    /\ hiters' = hiters + 1
    /\ hpings' = IF TellRaises THEN hpings
                 ELSE [r \in Roles |-> IF r \in Pinged THEN hpings[r] + 1 ELSE hpings[r]]
    /\ htasks' = IF TellRaises THEN htasks
                 ELSE htasks \cup {[target |-> r, sent_at |-> hnow] : r \in Pinged}
    /\ UNCHANGED <<href, last_health_ack, hnow>>
    /\ UNCHANGED exceptHealthVars

\* a _check_health_timeout task wakes up after its sleep
HealthTimeoutFires(t) ==
    /\ t \in htasks
    /\ hnow >= t.sent_at + HealthTimeout
    /\ htasks' = htasks \ {t}
    /\ href' = CheckHealthTimeout(href, last_health_ack, t.target, t.sent_at)
    /\ UNCHANGED <<last_health_ack, hnow, hpings, hiters>>
    /\ UNCHANGED exceptHealthVars

---------------------------------------------------------------------------
(***************************************************************************)
(* ActorSystem._run_actor of one actor "child"                             *)
(* (src/actor/actor_system.py): pre_start, then the receive loop.  A       *)
(* message is [id, kind]: the behaviour returns on kind "ok" and raises an *)
(* Exception on kind "raise"; kind "shutdown" is a Shutdown message.       *)
(* fparent says whether context.parent is set.                             *)
(***************************************************************************)
\* messages put in the actor's mailbox
MaxFailMsgs == 3

MsgKinds == {"ok", "raise", "shutdown"}

\* ChildFailed(child_id=actor_id, error=str(e)); the error is known by the
\* message whose handling raised
ChildFailedMsg(child_id, error) == [type |-> "ChildFailed", child_id |-> child_id, error |-> error]

FailInit ==
    /\ fparent = FALSE
    /\ fpc = "new"
    /\ fbox = <<>>
    /\ fsent = 0
    /\ fdone = <<>>
    /\ ptold = <<>>
    /\ fescaped = <<>>

\* an actor created by system.actor_of (no parent) or by a parent's
\* context.actor_of
FailStart ==
    /\ fparent \in BOOLEAN
    /\ fpc = "new"
    /\ fbox = <<>>
    /\ fsent = 0
    /\ fdone = <<>>
    /\ ptold = <<>>
    /\ fescaped = <<>>

\* a receive loop that ends when the behaviour raises
LoopAfterEscapes(msg) == IF msg.kind = "ok" THEN "running" ELSE "ended"

\* where _run_actor is after one pass of its loop: Shutdown breaks, an
\* Exception of the behaviour is caught inside the loop, which goes on
LoopAfter(msg) == IF msg.kind = "shutdown" THEN "ended" ELSE "running"

\* the `except Exception` branch: the parent, if any, is told ChildFailed
TellParent(out, parent, msg) ==
    IF msg.kind = "raise" /\ parent THEN Append(out, ChildFailedMsg("child", msg.id)) ELSE out

\* somebody's message reaches the actor's mailbox (_deliver_local)
FailPut(kind) ==
    /\ fsent < MaxFailMsgs
    /\ fsent' = fsent + 1
    /\ fbox' = Append(fbox, [id |-> fsent + 1, kind |-> kind])
    /\ UNCHANGED <<fparent, fpc, fdone, ptold, fescaped>>
    /\ UNCHANGED exceptFailVars

\* _run_actor up to the loop: `await actor.pre_start()` stands outside the
\* try, so an exception of pre_start ends the task and is told to nobody
PreStart(raises) ==
    /\ fpc = "new"
    /\ fpc' = IF raises THEN "ended" ELSE "running"
    /\ fescaped' = IF raises THEN Append(fescaped, "pre_start") ELSE fescaped
    /\ UNCHANGED <<fparent, fbox, fsent, fdone, ptold>>
    /\ UNCHANGED exceptFailVars

\* one pass of the loop of _run_actor
ReceiveLoop ==
    /\ fpc = "running" /\ fbox # <<>>
    /\ fbox' = Tail(fbox)
    /\ fdone' = Append(fdone, Head(fbox))
    /\ ptold' = TellParent(ptold, fparent, Head(fbox))
    /\ fpc' = LoopAfter(Head(fbox))
    /\ UNCHANGED <<fparent, fsent, fescaped>>
    /\ UNCHANGED exceptFailVars

---------------------------------------------------------------------------
(***************************************************************************)
(* GossipPeer._handle_gossip_state of one peer "p1" on GossipState         *)
(* messages whose crdt_deltas are dicts of any shape                       *)
(* (src/fl/gossip_peer.py, src/fl/crdt.py).  A dict is a function from     *)
(* field names; a missing field is a name outside its DOMAIN.  d['f'] on a *)
(* missing field raises KeyError, d.get('f', x) returns x.  The payloads   *)
(* speak of the one key "k", so a dict loop has at most one iteration.     *)
(***************************************************************************)
\* GossipState messages handled
MaxMalMsgs == 2
\* entries of crdt_deltas in one message
MaxMalDeltas == 2

Has(d, f) == f \in DOMAIN d

\* d.get(f, default)
DictGet(d, f, default) == IF Has(d, f) THEN d[f] ELSE default

\* Timestamp.from_dict returns (does not raise KeyError)
TsParses(d) == Has(d, "replica_id") /\ Has(d, "logical_time")

\* the dicts a peer may find as the "data" of an lww delta
PutOk == [type |-> "put", key |-> "k", value |-> "v1", ts |-> Timestamp(2, 1)]
DeleteOk == [type |-> "delete", key |-> "k", ts |-> Timestamp(2, 2)]
SnapOk ==
    [replica_id |-> 2, clock |-> 3, tombstones |-> EmptyDict,
     data |-> [k \in {"k"} |-> [value |-> "v2", ts |-> Timestamp(2, 3)]]]
PutNoKey == [type |-> "put", value |-> "v1", ts |-> Timestamp(2, 1)]
PutNoValue == [type |-> "put", key |-> "k", ts |-> Timestamp(2, 1)]
PutNoTs == [type |-> "put", key |-> "k", value |-> "v1"]
PutBadTs == [type |-> "put", key |-> "k", value |-> "v1", ts |-> [logical_time |-> 1]]
DeleteNoKey == [type |-> "delete", ts |-> Timestamp(2, 2)]
DeleteBadTs == [type |-> "delete", key |-> "k", ts |-> [replica_id |-> 2]]
UnknownType == [type |-> "bogus", key |-> "k", value |-> "v1", ts |-> Timestamp(2, 1)]
SnapBadTomb ==
    [replica_id |-> 2, clock |-> 3, data |-> EmptyDict,
     tombstones |-> [k \in {"k"} |-> [logical_time |-> 3]]]
SnapBadData ==
    [replica_id |-> 2, clock |-> 3, tombstones |-> EmptyDict,
     data |-> [k \in {"k"} |-> [value |-> "v2", ts |-> [logical_time |-> 3]]]]

Payloads ==
    <<PutOk, DeleteOk, SnapOk, PutNoKey, PutNoValue, PutNoTs, PutBadTs, DeleteNoKey,
      DeleteBadTs, UnknownType, SnapBadTomb, SnapBadData>>

\* entries of GossipState.crdt_deltas: {"type": "lww", "data": payload}, and
\* one entry without a type
LwwDelta(i) == [type |-> "lww", data |-> Payloads[i]]
NoTypeDelta == [data |-> PutOk]
Deltas == {LwwDelta(i) : i \in 1..Len(Payloads)} \cup {NoTypeDelta}

\* ids in GossipState.peer_info, each with a host and a port
InfoPeers == {"p2", "p3"}

\* a call that returns leaves the map `map`; a call that raises leaves it as
\* it was when the exception was thrown
Returned(m) == [map |-> m, raised |-> FALSE]
Thrown(m) == [map |-> m, raised |-> TRUE]

\* LWWMap.merge on a dict: other_delta['key'], ['value'], ['ts'] and
\* Timestamp.from_dict are evaluated before anything is assigned
MergeDict(m, d) ==
    LET delta_type == DictGet(d, "type", None) IN
    IF delta_type = "put" THEN
        IF Has(d, "key") /\ Has(d, "value") /\ Has(d, "ts") /\ TsParses(d.ts)
        THEN Returned(LwwMerge(m, d))
        ELSE Thrown(m)
    ELSE IF delta_type = "delete" THEN
        IF Has(d, "key") /\ Has(d, "ts") /\ TsParses(d.ts)
        THEN Returned(LwwMerge(m, d))
        ELSE Thrown(m)
    ELSE Returned(m)

\* the data entries merge_state does not skip: entry['ts'] parses
ParsedData(data) ==
    LET ok == {k \in DOMAIN data : Has(data[k], "ts") /\ TsParses(data[k].ts)} IN
    [k \in ok |-> [value |-> DictGet(data[k], "value", None), ts |-> data[k].ts]]

\* LWWMap.merge_state on a dict: the clock is advanced first; the tombstone
\* loop calls Timestamp.from_dict outside any try, the data loop inside one
MergeStateDict(m, s) ==
    IF Has(s, "type") /\ s.type \in {"put", "delete"} THEN MergeDict(m, s)
    ELSE
        LET other_clock == DictGet(s, "clock", 0)
            other_tomb == DictGet(s, "tombstones", EmptyDict)
            other_data == DictGet(s, "data", EmptyDict)
        IN IF \E k \in DOMAIN other_tomb : ~TsParses(other_tomb[k])
           THEN Thrown([m EXCEPT !.clock = Max2(m.clock, other_clock) + 1])
           ELSE Returned(MergeState(m, [clock |-> other_clock, tombstones |-> other_tomb,
                                        data |-> ParsedData(other_data)]))

\* the loop over msg.crdt_deltas: an exception of merge_state leaves the loop
RECURSIVE MergeDeltas(_, _)
MergeDeltas(m, ds) ==
    IF ds = <<>> THEN Returned(m)
    ELSE LET delta == Head(ds)
             one == IF DictGet(delta, "type", None) = "lww"
                    THEN MergeStateDict(m, DictGet(delta, "data", EmptyDict))
                    ELSE Returned(m)
         IN IF one.raised THEN one ELSE MergeDeltas(one.map, Tail(ds))

NoMalMsg == [crdt_deltas |-> <<>>, peer_info |-> {}]

MalInit ==
    /\ mmap = LWWMapNew(1)
    /\ mknown = {}
    /\ mhandled = 0
    /\ mlast = [msg |-> NoMalMsg, map |-> LWWMapNew(1), known |-> {}, raised |-> FALSE]

\* _handle_gossip_state(msg): the delta loop, then the peer_info loop; it has
\* no try, so an exception of the delta loop ends the handler there (the
\* receive loop logs it and goes on with the next message)
HandleGossipStateDicts(msg) ==
    LET merged == MergeDeltas(mmap, msg.crdt_deltas) IN
    /\ mhandled < MaxMalMsgs
    /\ mhandled' = mhandled + 1
    /\ mmap' = merged.map
    /\ mknown' = IF merged.raised THEN mknown ELSE mknown \cup msg.peer_info
    /\ mlast' = [msg |-> msg, map |-> mmap, known |-> mknown, raised |-> merged.raised]
    /\ UNCHANGED exceptMalVars

---------------------------------------------------------------------------
(***************************************************************************)
(* ActorRef.ask on a local recipient (src/actor/actor_system.py).  The     *)
(* recipient's behaviour answers every message with a reply that echoes    *)
(* its id, told to the ref of the asking actor.  A future is "pending"     *)
(* until it is given a result or cancelled; asyncio.wait_for cancels it    *)
(* when the timeout expires and raises TimeoutError.                       *)
(***************************************************************************)
\* ids of the messages passed to ask()
MaxAsks == 3
AskIds == 1..MaxAsks

AskMsg(id) == [type |-> "Request", id |-> id, to |-> "recipient"]
ReplyMsg(id) == [type |-> "Reply", id |-> id, to |-> "asker"]

NoCall == [state |-> "none", replied |-> FALSE]

AskInit ==
    /\ pending_asks = EmptyDict
    /\ askTasks = <<>>
    /\ askBox = <<>>
    /\ replyBox = <<>>
    /\ askCalls = [id \in AskIds |-> NoCall]

\* ask(msg, timeout) up to its await: the future is stored under msg.id,
\* then tell(msg) creates the _deliver_local task
Ask(id) ==
    /\ askCalls[id].state = "none"
    /\ pending_asks' = DictSet(pending_asks, id, "pending")
    /\ askTasks' = Append(askTasks, AskMsg(id))
    /\ askCalls' = [askCalls EXCEPT ![id] = [state |-> "waiting", replied |-> FALSE]]
    /\ UNCHANGED <<askBox, replyBox>>
    /\ UNCHANGED exceptAskVars

\* _deliver_local: the message is put in the mailbox of its target;
\* _pending_asks is not looked at
AskDeliverLocal ==
    /\ askTasks # <<>>
    /\ askTasks' = Tail(askTasks)
    /\ askBox' = IF Head(askTasks).to = "recipient" THEN Append(askBox, Head(askTasks)) ELSE askBox
    /\ replyBox' = IF Head(askTasks).to = "asker" THEN Append(replyBox, Head(askTasks)) ELSE replyBox
    /\ UNCHANGED <<pending_asks, askCalls>>
    /\ UNCHANGED exceptAskVars

\* the recipient's receive loop takes a message; its behaviour tells the
\* reply
RecipientReceive ==
    /\ askBox # <<>>
    /\ askBox' = Tail(askBox)
    /\ askTasks' = Append(askTasks, ReplyMsg(Head(askBox).id))
    /\ UNCHANGED <<pending_asks, replyBox, askCalls>>
    /\ UNCHANGED exceptAskVars

\* a reply that echoes id has been delivered
Replied(id) == \E i \in DOMAIN replyBox : replyBox[i].id = id

\* asyncio.wait_for(future, timeout) expires on a pending future: it cancels
\* the future and raises TimeoutError; the entry stays in _pending_asks
AskTimeout(id) ==
    /\ askCalls[id].state = "waiting"
    /\ pending_asks[id] = "pending"
    /\ pending_asks' = [pending_asks EXCEPT ![id] = "cancelled"]
    /\ askCalls' = [askCalls EXCEPT ![id] = [state |-> "timeout", replied |-> Replied(id)]]
    /\ UNCHANGED <<askTasks, askBox, replyBox>>
    /\ UNCHANGED exceptAskVars

---------------------------------------------------------------------------
(***************************************************************************)
(* Teardowns and respawns of one actor id "a" without children             *)
(* (src/actor/actor_system.py).  Instance k is the k-th actor constructed  *)
(* under the id, with its mailbox and its _run_actor task; actor_of stores *)
(* the three entries and _stop_actor deletes them in one step, so          *)
(* ractor stands for the entry of _actors, _mailboxes and _tasks.  A       *)
(* _stop_actor task is created by stop() (called by a user, by             *)
(* Supervisor._restart_child through context.stop) or run by shutdown().   *)
(***************************************************************************)
\* actor instances constructed under the id
MaxInstances == 3
\* _stop_actor tasks
MaxStops == 3

Instances == 1..MaxInstances

RaceInit ==
    /\ ractor = NoInstance
    /\ rmade = 0
    /\ rlive = {}
    /\ rcancelled = {}
    /\ rstops = <<>>
    /\ rpost = [k \in Instances |-> 0]
    /\ rremoved = <<>>

\* actor_of(cls, "a"): by a user, or by _restart_child after its sleep
RaceActorOf ==
    /\ rmade < MaxInstances
    /\ IF ractor # NoInstance
       THEN UNCHANGED <<ractor, rmade, rlive>>
       ELSE /\ ractor' = rmade + 1
            /\ rmade' = rmade + 1
            /\ rlive' = rlive \cup {rmade + 1}
    /\ UNCHANGED <<rcancelled, rstops, rpost, rremoved>>
    /\ UNCHANGED exceptRaceVars

\* stop("a"): a _stop_actor task is created when the id is registered
RaceStop ==
    /\ Len(rstops) < MaxStops
    /\ ractor # NoInstance
    /\ rstops' = Append(rstops, [pc |-> "start", inst |-> NoInstance])
    /\ UNCHANGED <<ractor, rmade, rlive, rcancelled, rpost, rremoved>>
    /\ UNCHANGED exceptRaceVars

\* _stop_actor up to `await self._tasks[actor_id]`: the registered actor is
\* captured and its task cancelled
StopActorBegin(t) ==
    /\ rstops[t].pc = "start"
    /\ IF ractor = NoInstance
       THEN /\ rstops' = [rstops EXCEPT ![t].pc = "returned"]
            /\ UNCHANGED rcancelled
       ELSE /\ rstops' = [rstops EXCEPT ![t] = [pc |-> "await", inst |-> ractor]]
            /\ rcancelled' = rcancelled \cup {ractor}
    /\ UNCHANGED <<ractor, rmade, rlive, rpost, rremoved>>
    /\ UNCHANGED exceptRaceVars

\* a cancelled _run_actor task ends at its CancelledError
RaceTaskEnds(k) ==
    /\ k \in rlive \cap rcancelled
    /\ rlive' = rlive \ {k}
    /\ UNCHANGED <<ractor, rmade, rcancelled, rstops, rpost, rremoved>>
    /\ UNCHANGED exceptRaceVars

\* the three del statements of task t: with no entry under the id the first
\* raises KeyError; otherwise the entries are removed, whichever instance
\* they hold
Dels(t) ==
    IF ractor = NoInstance
    THEN /\ rstops' = [rstops EXCEPT ![t].pc = "raised"]
         /\ UNCHANGED <<ractor, rremoved>>
    ELSE /\ rstops' = [rstops EXCEPT ![t].pc = "done"]
         /\ ractor' = NoInstance
         /\ rremoved' = Append(rremoved, [captured |-> rstops[t].inst, removed |-> ractor])

\* _stop_actor after the awaited task has ended: post_stop() of the captured
\* actor is invoked; it returns without suspending, and the entries are
\* deleted in the same step, or it suspends
StopActorPostStop(t, suspends) ==
    /\ rstops[t].pc = "await"
    /\ rstops[t].inst \notin rlive
    /\ rpost' = [rpost EXCEPT ![rstops[t].inst] = @ + 1]
    /\ IF suspends
       THEN /\ rstops' = [rstops EXCEPT ![t].pc = "post_stop"]
            /\ UNCHANGED <<ractor, rremoved>>
       ELSE Dels(t)
    /\ UNCHANGED <<rmade, rlive, rcancelled>>
    /\ UNCHANGED exceptRaceVars

\* _stop_actor after a post_stop() that suspended
StopActorFinish(t) ==
    /\ rstops[t].pc = "post_stop"
    /\ Dels(t)
    /\ UNCHANGED <<rmade, rlive, rcancelled, rpost>>
    /\ UNCHANGED exceptRaceVars

\* ---- initial states of the parts a specification leaves alone
OldInit == CrdtInit /\ RtInit /\ ProvInit /\ SupInit

NewInit == ConvInit /\ GossipIdle /\ SysIdle /\ TreeInit /\ BecomeInit /\ LwwInit /\ PnInit /\ RepInit /\ HealthInit /\ StrayInit /\ WireInit /\ FailInit /\ MalInit /\ AskInit /\ RaceInit

RestConv == OldInit /\ GossipIdle /\ SysIdle /\ TreeInit /\ BecomeInit /\ LwwInit /\ PnInit /\ RepInit /\ HealthInit /\ StrayInit /\ WireInit /\ FailInit /\ MalInit /\ AskInit /\ RaceInit

RestGossip == OldInit /\ ConvInit /\ SysIdle /\ TreeInit /\ BecomeInit /\ LwwInit /\ PnInit /\ RepInit /\ HealthInit /\ StrayInit /\ WireInit /\ FailInit /\ MalInit /\ AskInit /\ RaceInit

RestSys == OldInit /\ ConvInit /\ GossipIdle /\ TreeInit /\ BecomeInit /\ LwwInit /\ PnInit /\ RepInit /\ HealthInit /\ StrayInit /\ WireInit /\ FailInit /\ MalInit /\ AskInit /\ RaceInit

RestTree == OldInit /\ ConvInit /\ GossipIdle /\ SysIdle /\ BecomeInit /\ LwwInit /\ PnInit /\ RepInit /\ HealthInit /\ StrayInit /\ WireInit /\ FailInit /\ MalInit /\ AskInit /\ RaceInit

RestBecome == OldInit /\ ConvInit /\ GossipIdle /\ SysIdle /\ TreeInit /\ LwwInit /\ PnInit /\ RepInit /\ HealthInit /\ StrayInit /\ WireInit /\ FailInit /\ MalInit /\ AskInit /\ RaceInit

RestLww == OldInit /\ ConvInit /\ GossipIdle /\ SysIdle /\ TreeInit /\ BecomeInit /\ PnInit /\ RepInit /\ HealthInit /\ StrayInit /\ WireInit /\ FailInit /\ MalInit /\ AskInit /\ RaceInit

RestPn == OldInit /\ ConvInit /\ GossipIdle /\ SysIdle /\ TreeInit /\ BecomeInit /\ LwwInit /\ RepInit /\ HealthInit /\ StrayInit /\ WireInit /\ FailInit /\ MalInit /\ AskInit /\ RaceInit

RestRep == OldInit /\ ConvInit /\ GossipIdle /\ SysIdle /\ TreeInit /\ BecomeInit /\ LwwInit /\ PnInit /\ HealthInit /\ StrayInit /\ WireInit /\ FailInit /\ MalInit /\ AskInit /\ RaceInit

RestHealth == OldInit /\ ConvInit /\ GossipIdle /\ SysIdle /\ TreeInit /\ BecomeInit /\ LwwInit /\ PnInit /\ RepInit /\ StrayInit /\ WireInit /\ FailInit /\ MalInit /\ AskInit /\ RaceInit

RestStray == OldInit /\ ConvInit /\ GossipIdle /\ SysIdle /\ TreeInit /\ BecomeInit /\ LwwInit /\ PnInit /\ RepInit /\ HealthInit /\ WireInit /\ FailInit /\ MalInit /\ AskInit /\ RaceInit

RestWire == OldInit /\ ConvInit /\ GossipIdle /\ SysIdle /\ TreeInit /\ BecomeInit /\ LwwInit /\ PnInit /\ RepInit /\ HealthInit /\ StrayInit /\ FailInit /\ MalInit /\ AskInit /\ RaceInit

RestFail == OldInit /\ ConvInit /\ GossipIdle /\ SysIdle /\ TreeInit /\ BecomeInit /\ LwwInit /\ PnInit /\ RepInit /\ HealthInit /\ StrayInit /\ WireInit /\ MalInit /\ AskInit /\ RaceInit

RestMal == OldInit /\ ConvInit /\ GossipIdle /\ SysIdle /\ TreeInit /\ BecomeInit /\ LwwInit /\ PnInit /\ RepInit /\ HealthInit /\ StrayInit /\ WireInit /\ FailInit /\ AskInit /\ RaceInit

RestAsk == OldInit /\ ConvInit /\ GossipIdle /\ SysIdle /\ TreeInit /\ BecomeInit /\ LwwInit /\ PnInit /\ RepInit /\ HealthInit /\ StrayInit /\ WireInit /\ FailInit /\ MalInit /\ RaceInit

RestRace == OldInit /\ ConvInit /\ GossipIdle /\ SysIdle /\ TreeInit /\ BecomeInit /\ LwwInit /\ PnInit /\ RepInit /\ HealthInit /\ StrayInit /\ WireInit /\ FailInit /\ MalInit /\ AskInit

---------------------------------------------------------------------------
InitCrdt == CrdtInit /\ RtInit /\ ProvInit /\ SupInit /\ NewInit

NextCrdt ==
    \/ \E r \in ReplicaIds, key \in Keys, value \in Values : Put(r, key, value)
    \/ \E r \in ReplicaIds, key \in Keys : Delete(r, key)
    \/ \E r \in ReplicaIds, d \in deltas : Merge(r, d)

SpecCrdt == InitCrdt /\ [][NextCrdt]_vars

InitRt == RtInit /\ CrdtInit /\ ProvInit /\ SupInit /\ NewInit

NextRt ==
    \/ \E s \in Senders : SenderReady(s)
    \/ \E s \in Senders, k \in 1..2 : RunSender(s, k)
    \/ RunDeliver
    \/ ActorWaitGet
    \/ \E suspends \in BOOLEAN : ActorReceive(suspends)
    \/ BehaviorReady
    \/ BehaviorEnd

SpecRt == InitRt /\ [][NextRt]_vars

InitProv == ProvInit /\ CrdtInit /\ RtInit /\ SupInit /\ NewInit

NextProv ==
    \/ \E w \in Workers : HandleRegisterWorker(w)
    \/ HandleRegisterEvaluator
    \/ HandleRegisterAggregator
    \/ \E w \in Workers : HandleModelUpdate(w)
    \/ HandleAggregatedResult
    \/ HandleEvaluationResult
    \/ \E w \in Workers : WorkerRegister(w)
    \/ \E w \in Workers : WorkerTrain(w)
    \/ EvaluatorRegister
    \/ EvaluatorEvaluate
    \/ AggregatorRegister
    \/ AggregatorAggregate

SpecProv == InitProv /\ [][NextProv]_vars

InitSup == SupInit /\ CrdtInit /\ RtInit /\ ProvInit /\ NewInit

NextSup ==
    \/ \E c \in Children : TellMonitorChild(c)
    \/ HandleMonitorChild
    \/ \E c \in Children : ChildFails(c)
    \/ HandleChildFailed
    \/ RestartResume
    \/ \E s \in stops : StopBegin(s)
    \/ \E s \in stops, suspends \in BOOLEAN : StopPostStop(s, suspends)
    \/ \E s \in stops : StopFinish(s)
    \/ HealthCheck

SpecSup == InitSup /\ [][NextSup]_vars

InitConv == ConvInit /\ RestConv

NextConv == \E d \in DeltaNorms : SampleDeltaNorm(d)

SpecConv == InitConv /\ [][NextConv]_vars

InitGossip == GossipInit /\ RestGossip

NextGossip ==
    \/ \E p \in GossipPeers :
           \E targets \in SUBSET TargetRefs(peer[p], p, SelfEndpoint(p)) :
               GossipIteration(p, targets)
    \/ \E p \in GossipPeers, g1 \in GlobalDeltas, g2 \in GlobalDeltas : TrainRound(p, g1, g2)
    \/ \E p \in GossipPeers, g \in GlobalDeltas : ReceiveGossip(p, g)

SpecGossip == InitGossip /\ [][NextGossip]_vars

\* Each gossip loop is a task of its own that wakes after every interval, and
\* each receive loop takes every message delivered to its mailbox: steps of
\* either kind are not postponed forever.
GossipStep ==
    \E p \in GossipPeers :
        \E targets \in SUBSET TargetRefs(peer[p], p, SelfEndpoint(p)) :
            GossipIteration(p, targets)

ReceiveStep == \E p \in GossipPeers, g \in GlobalDeltas : ReceiveGossip(p, g)

FairGossip == WF_vars(GossipStep) /\ WF_vars(ReceiveStep)

SpecGossipFair == SpecGossip /\ FairGossip

InitMember == MemberInit /\ RestGossip

NextMember ==
    \/ \E p \in GossipPeers, id \in MemberIds, host \in MsgHosts, port \in Ports :
           ReceiveJoin(p, id, host, port)
    \/ \E p \in GossipPeers, id \in MemberIds, host \in MsgHosts, port \in Ports :
           ReceiveMembership(p, id, host, port)

SpecMember == InitMember /\ [][NextMember]_vars

InitSys == SysInit /\ RestSys

NextSys ==
    \/ \E target \in Targets, count \in Counts : Tell(target, count)
    \/ \E t \in 1..MaxTells : DeliverLocal(t)
    \/ \E t \in 1..MaxTells, raises \in BOOLEAN : SendRemote(t, raises)
    \/ \E t \in 1..MaxTells, raises \in BOOLEAN : DialDone(t, raises)
    \/ RunActor

SpecSys == InitSys /\ [][NextSys]_vars

\* the event loop runs the step at the head of its ready queue
RunHead ==
    \/ \E s \in Senders, k \in 1..2 : RunSender(s, k)
    \/ RunDeliver
    \/ ActorWaitGet
    \/ \E suspends \in BOOLEAN : ActorReceive(suspends)
    \/ BehaviorEnd

\* the loop never idles with a runnable step, and what a suspended behaviour
\* awaits completes
FairRt == WF_vars(RunHead) /\ WF_vars(BehaviorReady)

SpecRtFair == SpecRt /\ FairRt

InitTree == TreeInit /\ RestTree

NextTree ==
    \/ \E id \in ActorIds : SystemActorOfCall(id)
    \/ \E parent \in ActorIds, id \in ActorIds : ContextActorOf(parent, id)
    \/ \E id \in ActorIds : StopCall(id)
    \/ StopActorStart
    \/ \E k \in 1..MaxActorOf : TaskEnds(k)
    \/ StopActorResume

SpecTree == InitTree /\ [][NextTree]_vars

InitBecome == BecomeInit /\ RestBecome

NextBecome ==
    \/ \E type \in MsgTypes : TellStateful(type)
    \/ DeliverStateful
    \/ HandleStateful

SpecBecome == InitBecome /\ [][NextBecome]_vars

InitLww == LwwInit /\ RestLww

NextLww ==
    \/ \E r \in LwwReplicas, key \in Keys, value \in Values : LocalPut(r, key, value)
    \/ \E r \in LwwReplicas, key \in Keys : LocalDelete(r, key)
    \/ \E r \in LwwReplicas : TakeSnapshot(r)
    \/ \E r \in LwwReplicas : \E d \in lpub : MergeDelta(r, d)
    \/ \E r \in LwwReplicas : \E s \in lsnaps : MergeSnapshot(r, s)

SpecLww == InitLww /\ [][NextLww]_vars

InitPn == PnInit /\ RestPn

NextPn ==
    \/ \E r \in PnReplicas : IncrementAt(r)
    \/ \E r \in PnReplicas : DecrementAt(r)
    \/ \E r \in PnReplicas : PnSnapshot(r)
    \/ \E r \in PnReplicas : \E s \in pnsnaps : PnMergeAt(r, s)

SpecPn == InitPn /\ [][NextPn]_vars

InitRep == RepStart /\ RestRep

NextRep ==
    \/ RepPreStart
    \/ \E p \in RepPeers, k \in RepRounds, c \in {0, 1}, d \in {0, 1} : HandlePeerUpdate(p, k, c, d)
    \/ \E p \in RepPeers, s \in RepStatuses : HandleHealthAck(p, s)
    \/ MonitoringLoop
    \/ RepShutdown

SpecRep == InitRep /\ [][NextRep]_vars

NextRound ==
    \/ \E w \in RunWorkers : WorkerRegister(w)
    \/ \E w \in RunWorkers : HandleRegisterWorker(w)
    \/ \E w \in RunWorkers : WorkerTrain(w)
    \/ \E w \in RunWorkers : HandleModelUpdate(w)
    \/ AggregatorStart
    \/ HandleRegisterAggregator
    \/ AggregatorAggregate
    \/ HandleAggregatedResult
    \/ EvaluatorRegister
    \/ EvaluatorRestart
    \/ HandleRegisterEvaluator
    \/ EvaluatorEvaluate
    \/ HandleEvaluationResult

SpecRound == InitProv /\ [][NextRound]_vars

\* fair delivery: every peer process is started and runs, every message
\* that was sent is handled; only a restart of the evaluator may never come
FairRound ==
    /\ \A w \in RunWorkers :
          /\ WF_vars(WorkerRegister(w)) /\ WF_vars(HandleRegisterWorker(w))
          /\ WF_vars(WorkerTrain(w)) /\ WF_vars(HandleModelUpdate(w))
    /\ WF_vars(AggregatorStart) /\ WF_vars(HandleRegisterAggregator)
    /\ WF_vars(AggregatorAggregate) /\ WF_vars(HandleAggregatedResult)
    /\ WF_vars(EvaluatorRegister) /\ WF_vars(HandleRegisterEvaluator)
    /\ WF_vars(EvaluatorEvaluate) /\ WF_vars(HandleEvaluationResult)

SpecRoundFair == SpecRound /\ FairRound

InitHealth == HealthInit /\ RestHealth

\* no _check_health_timeout task is ever created, so none wakes up
NextHealth ==
    \/ \E r \in Roles : RegisterRole(r)
    \/ \E r \in Roles : ProviderHealthAck(r)
    \/ HealthTick
    \/ PeriodicHealthCheck

SpecHealth == InitHealth /\ [][NextHealth]_vars

\* the run of SpecRound with an actor outside the worker map that sends
\* ModelUpdate messages
NextStray ==
    \/ NextRound
    \/ \E w \in Workers \ RunWorkers : StrayUpdate(w, 1)
    \/ \E w \in Workers \ RunWorkers : HandleModelUpdate(w)

SpecStray == InitProv /\ [][NextStray]_vars

\* the sending system of SpecSys together with the receiving system
NextWire ==
    \/ NextSys
    \/ \E c \in Conns : HandleConnection(c)
    \/ RemoteRunActor

SpecWire == InitSys /\ [][NextWire]_vars

InitFail == FailStart /\ RestFail

NextFail ==
    \/ \E kind \in MsgKinds : FailPut(kind)
    \/ \E raises \in BOOLEAN : PreStart(raises)
    \/ ReceiveLoop

SpecFail == InitFail /\ [][NextFail]_vars

\* GossipState messages of at most MaxMalDeltas deltas
MalMsgs ==
    {[crdt_deltas |-> ds, peer_info |-> ps] :
        ds \in UNION {[1..n -> Deltas] : n \in 0..MaxMalDeltas}, ps \in SUBSET InfoPeers}

InitMal == MalInit /\ RestMal

NextMal == \E msg \in MalMsgs : HandleGossipStateDicts(msg)

SpecMal == InitMal /\ [][NextMal]_vars

InitAsk == AskInit /\ RestAsk

NextAsk ==
    \/ \E id \in AskIds : Ask(id)
    \/ AskDeliverLocal
    \/ RecipientReceive
    \/ \E id \in AskIds : AskTimeout(id)

SpecAsk == InitAsk /\ [][NextAsk]_vars

InitRace == RaceInit /\ RestRace

NextRace ==
    \/ RaceActorOf
    \/ RaceStop
    \/ \E t \in DOMAIN rstops : StopActorBegin(t)
    \/ \E k \in Instances : RaceTaskEnds(k)
    \/ \E t \in DOMAIN rstops, suspends \in BOOLEAN : StopActorPostStop(t, suspends)
    \/ \E t \in DOMAIN rstops : StopActorFinish(t)

SpecRace == InitRace /\ [][NextRace]_vars

---------------------------------------------------------------------------
\* C1: local FIFO.  Messages that one sender passed to tell() on the same
\* local ref are handled by the target's behaviour in the order of the
\* tell() calls, whatever the mailbox occupancy.
C1_LocalFifo ==
    \A i, j \in 1..Len(processed) :
        (i < j /\ processed[i].from = processed[j].from) => processed[i].n < processed[j].n

\* C2: single-threaded actor.  At most one invocation of the actor's
\* behaviour is in progress at any time: the next one starts only after the
\* previous one has returned or raised.
C2_SingleThreaded == active <= 1

\* C2 witness: an invocation is suspended while further messages wait in the
\* mailbox, and earlier invocations have already run to their end.
C2_Witness == active = 1 /\ mailbox # <<>> /\ Len(processed) >= 2

\* C3: two replicas that have observed the same set of put/delete deltas,
\* in whatever order and with repeats, return the same get(k) for every key.
C3_ObservableConvergence ==
    \A r1, r2 \in ReplicaIds :
        observed[r1] = observed[r2] =>
            \A key \in Keys : LwwGet(replicas[r1], key) = LwwGet(replicas[r2], key)

\* C3 witness: two replicas have taken the same deltas, a put and a delete
\* among them, along different histories: their stored states differ.
C3_Witness ==
    \E r1, r2 \in ReplicaIds :
        /\ r1 # r2
        /\ observed[r1] = observed[r2]
        /\ \E d1, d2 \in observed[r1] : d1.type = "put" /\ d2.type = "delete"
        /\ replicas[r1].data # replicas[r2].data

\* C4: replicas that have exchanged every delta hold the same data map and
\* the same tombstone map.
C4_StateConvergence ==
    \A r1, r2 \in ReplicaIds :
        (observed[r1] = deltas /\ observed[r2] = deltas) =>
            /\ replicas[r1].data = replicas[r2].data
            /\ replicas[r1].tombstones = replicas[r2].tombstones

\* workers with an update for round k among the updates ups
WorkersFor(ups, k) == {ups[j].from : j \in {x \in 1..Len(ups) : ups[x].round = k}}

\* C5: barrier distinctness.  Every AggregateRound the coordinator forwards
\* for round k rests on ModelUpdates for round k from NumWorkers distinct
\* workers; repeated or foreign-round updates do not fill the barrier.
C5_BarrierDistinct ==
    \A i \in 1..Len(forwarded) :
        Cardinality(WorkersFor(forwarded[i].updates, forwarded[i].round)) >= NumWorkers

\* number of AggregateRound messages forwarded for round k
ForwardedFor(k) == Cardinality({i \in 1..Len(forwarded) : forwarded[i].round = k})

\* number of AggregatedResults installed for round k
InstalledFor(k) == Cardinality({i \in 1..Len(prov.history) : prov.history[i] = k})

\* C6: exactly one aggregation per round.  For every round k at most one
\* AggregateRound is forwarded and at most one AggregatedResult installed,
\* and exactly one of each once the round is over.
C6_OneAggregationPerRound ==
    \A k \in 1..NumRounds :
        /\ ForwardedFor(k) <= 1
        /\ InstalledFor(k) <= 1
        /\ (k < prov.current_round \/ prov.training_complete) =>
               (ForwardedFor(k) = 1 /\ InstalledFor(k) = 1)

\* C7: late updates are discarded.  The updates counted toward the current
\* round's barrier are updates for the current round, and a forwarded
\* AggregateRound holds only updates of its own round.
C7_LateUpdatesDiscarded ==
    /\ \A j \in 1..Len(prov.round_weight_updates) :
           prov.round_weight_updates[j].round = prov.current_round
    /\ \A i \in 1..Len(forwarded) : \A j \in 1..Len(forwarded[i].updates) :
           forwarded[i].updates[j].round = forwarded[i].round

\* C10: coordinator history.  The history holds one entry per aggregated
\* round, with indices 1, 2, ... in order, never more than NumRounds of
\* them, and NumRounds of them when training is complete.
C10_History ==
    /\ \A i \in 1..Len(prov.history) : prov.history[i] = i
    /\ Len(prov.history) <= NumRounds
    /\ prov.training_complete => Len(prov.history) = NumRounds

\* C8: supervisor health restart.  Every iteration of the health loop tells a
\* HealthPing to every monitored child whose status is not "failed" (the step
\* without which no timeout is counted and no restart is ever begun by the
\* loop).
C8_HealthPing ==
    [][healthChecks' = healthChecks + 1 =>
         \A c \in DOMAIN monitored :
             monitored[c].status # "failed" => pings'[c] = pings[c] + 1]_vars

\* C9: supervisor restart outcome.  When _restart_child(c) has completed, the
\* registry holds under c an instance other than the one it held when the
\* restart began, the bookkeeping of c is reset, and that instance is still
\* registered when no teardown is in progress any more (so that a message told
\* to c afterwards reaches it).
C9_RestartOutcome ==
    /\ \A i \in 1..Len(restarts) :
           /\ restarts[i].new # NoInstance
           /\ restarts[i].new # restarts[i].old
    /\ \A c \in DOMAIN monitored :
           (monitored[c].status = "starting" /\ stops = {} /\ supPc.at = "idle"
                /\ \A i \in 1..Len(supBox) : supBox[i] # ChildFailed(c))
               => registry[c] # NoInstance

\* number of samples at the end of s that are below convergence_eps
RECURSIVE TrailingBelow(_)
TrailingBelow(s) ==
    IF s = <<>> \/ ~FloatLt(s[Len(s)], ConvergenceEps) THEN 0
    ELSE 1 + TrailingBelow(SubSeq(s, 1, Len(s) - 1))

\* C13: convergence counter.  After any sequence of _update_convergence
\* calls convergence_count is the number of most recent consecutive samples
\* below convergence_eps, and _is_converged() holds iff that number has
\* reached convergence_patience.
C13_ConvergenceCounter ==
    /\ conv.convergence_count = TrailingBelow(convSamples)
    /\ IsConverged(conv) <=> TrailingBelow(convSamples) >= ConvergencePatience

\* peer p holds a visible entry for the model of peer q (LWWMap.get is not None)
HoldsModel(p, q) ==
    LET m == peer[p].lww IN
    /\ ModelKey(q) \in DOMAIN m.data
    /\ ~(ModelKey(q) \in DOMAIN m.tombstones
         /\ TsGe(m.tombstones[ModelKey(q)], m.data[ModelKey(q)].ts))

AllHoldAll == \A p \in GossipPeers, q \in GossipPeers : HoldsModel(p, q)

C12_ConvergenceHalts ==
    /\ [](\A p \in GossipPeers :
             peer[p].convergence_count >= ConvergencePatience => peer[p].stopped)
    /\ [][\A p \in GossipPeers :
             peer[p].stopped =>
                 /\ sent'[p] = sent[p]
                 /\ peer'[p].round_num = peer[p].round_num
                 /\ peer'[p].stopped]_vars

C12_Witness ==
    \E p \in GossipPeers :
        /\ peer[p].stopped /\ gcfg[p].has_data
        /\ CanRunMoreRounds(peer[p], gcfg[p]) /\ peer[p].round_num < MaxTrain
        /\ gossips[p] < MaxGossips /\ TargetRefs(peer[p], p, SelfEndpoint(p)) # {}
        /\ ~peer[OtherPeer(p)].stopped

\* the endpoint the peer's ActorSystem listens on
SystemEndpoint(p) == Endpoint(gcfg[p].host, PeerPort(p))

\* C14: no self in known_peers.  After any GossipPeerJoin and GossipState
\* messages a peer's known_peers has no entry under the peer's own id and no
\* ref to the peer's own endpoint, be it the (host, port) its ActorSystem is
\* bound to or the (host, port) it advertises.
C14_NoSelfInKnownPeers ==
    \A p \in GossipPeers :
        /\ p \notin DOMAIN peer[p].known_peers
        /\ \A id \in DOMAIN peer[p].known_peers :
               /\ peer[p].known_peers[id] # SelfEndpoint(p)
               /\ peer[p].known_peers[id] # SystemEndpoint(p)

\* the frames written to address a
FramesTo(a) == {i \in 1..Len(written) : written[i].addr = a}

\* C15: connection reuse.  As long as no dial or write to an address has
\* failed, open_connection has been called at most once for it, however
\* many tells were issued before the first dial completed; every frame to
\* it went over that one connection, which is the cached one.
C15_ConnectionReuse ==
    \A a \in Addrs :
        ~raised[a] =>
            /\ dials[a] <= 1
            /\ \A i \in FramesTo(a) : written[i].conn = remote_connections[a]

RECURSIVE Threaded(_, _, _, _)
\* the result of the first i interceptors of a list, each applied to the
\* result of the one before it
Threaded(chain, actor_id, msg, i) ==
    IF i = 0 THEN msg ELSE CallMiddleware(chain[i], actor_id, Threaded(chain, actor_id, msg, i - 1))

\* some interceptor of the list returns null for the message
Nulled(chain, actor_id, msg) ==
    \E i \in 1..Len(chain) : Threaded(chain, actor_id, msg, i).null

\* the message of tell() call id as told, and as the send interceptors leave it
Told(id) == Ping(id, tells[id].count)

Sent(id) == Threaded(send_middleware, "counter", Told(id), Len(send_middleware))

SendNulled(id) == Nulled(send_middleware, "counter", Told(id))

ReceiveNulled(id) == Nulled(receive_middleware, LocalActor, Sent(id))

Elems(s) == {s[i] : i \in 1..Len(s)}

\* C16: interception drop.  A message some send interceptor nulls is in no
\* mailbox and on no connection; what is enqueued or written is the result
\* of the send interceptors applied in registration order; a message some
\* receive interceptor nulls is never passed to the behaviour, what is
\* passed is the result of the receive interceptors in order, and the loop
\* goes on: every enqueued message is waiting, handled or skipped.
C16_InterceptionDrop ==
    /\ \A id \in 1..Len(tells) :
          SendNulled(id) =>
              \A m \in Elems(box) \cup Elems(handled) \cup Elems(skipped)
                       \cup {written[i].msg : i \in 1..Len(written)} : m.id # id
    /\ \A m \in Elems(box) \cup Elems(skipped) \cup {written[i].msg : i \in 1..Len(written)} :
          m = Sent(m.id)
    /\ \A m \in Elems(handled) :
          /\ ~ReceiveNulled(m.id)
          /\ m = Threaded(receive_middleware, LocalActor, Sent(m.id), Len(receive_middleware))
    /\ \A m \in Elems(skipped) : ReceiveNulled(m.id)
    /\ Len(box) + Len(handled) + Len(skipped) =
          Cardinality({t \in 1..Len(sendTasks) :
                          sendTasks[t].pc = "done" /\ sendTasks[t].target = LocalActor
                          /\ ~SendNulled(t)})

\* a send interceptor nulled one message (its task has ended), a receive
\* interceptor nulled a second one, and the behaviour got a later third one
C16_Witness ==
    /\ \E id \in 1..Len(tells) : SendNulled(id) /\ sendTasks[id].pc = "done"
    /\ \E i \in 1..Len(skipped), j \in 1..Len(handled) : skipped[i].id < handled[j].id
    /\ Len(send_middleware) = 2

\* number of places message m is held in: a runnable _deliver_local task, a
\* task waiting in Queue.put, the mailbox, or handed to the behaviour
Holders(m) ==
    Cardinality({i \in 1..Len(ready) : ready[i] = DeliverStep(m)})
    + Cardinality({i \in 1..Len(putters) : putters[i] = m})
    + Cardinality({i \in 1..Len(mailbox) : mailbox[i] = m})
    + Cardinality({i \in 1..Len(processed) : processed[i] = m})

\* C17: backpressure without loss.  The mailbox never holds more than
\* Capacity messages; a delivery that finds it full waits in put and the
\* mailbox is left as it is; every message told is held in exactly one
\* place and is eventually handed to the behaviour.
C17_BackpressureNoLoss ==
    /\ [](Len(mailbox) <= Capacity)
    /\ [][(RunDeliver /\ Len(mailbox) >= Capacity) =>
              (mailbox' = mailbox /\ Len(putters') = Len(putters) + 1)]_vars
    /\ [](\A s \in Senders : \A n \in 1..MaxMsgs :
              Holders(Msg(s, n)) = IF n <= told[s] THEN 1 ELSE 0)
    /\ \A s \in Senders : \A n \in 1..MaxMsgs :
           [](told[s] >= n => <>(\E i \in 1..Len(processed) : processed[i] = Msg(s, n)))

\* a producer is waiting on the full mailbox while earlier messages have
\* been handled
C17_Witness ==
    /\ putters # <<>>
    /\ Len(mailbox) = Capacity
    /\ Len(processed) >= 1

\* the task of the actor registered under id is cancelled in this step
CancelledNow(id) == tasks[id] # 0 /\ tasks[id] \notin cancelled /\ tasks[id] \in cancelled'

\* C18: post-order stop.  When _stop_actor cancels the task of an actor,
\* every child in the actor's context.children has been torn down: its task
\* cancelled, its post_stop invoked, its registry entries removed.  When the
\* teardown of stop(id) completes, id is in none of the three maps.
C18_PostOrderStop ==
    /\ [][\A id \in ActorIds :
              CancelledNow(id) =>
                  \A i \in 1..Len(kids'[id]) : actors'[kids'[id][i]] = NoInstance]_vars
    /\ [][(stopTask.pc = "await" /\ stopTask'.pc = "done") =>
              /\ actors'[stopTask.root] = NoInstance
              /\ mailboxes'[stopTask.root] = 0
              /\ tasks'[stopTask.root] = 0]_vars

\* C19: idempotent spawn.  An actor_of call with a registered id leaves the
\* three maps as they are and constructs nothing; a call with a new id
\* registers a new actor, a new mailbox and exactly one new task under it
\* and leaves the other entries alone.
C19_IdempotentSpawn ==
    [][Len(actorOfCalls') = Len(actorOfCalls) + 1 =>
          LET id == actorOfCalls'[Len(actorOfCalls')].id IN
          IF actors[id] # NoInstance
          THEN /\ actors' = actors /\ mailboxes' = mailboxes /\ tasks' = tasks
               /\ made' = made
          ELSE /\ actors' = [actors EXCEPT ![id] = made.actors + 1]
               /\ mailboxes' = [mailboxes EXCEPT ![id] = made.mailboxes + 1]
               /\ tasks' = [tasks EXCEPT ![id] = made.tasks + 1]
               /\ made' = [actors |-> made.actors + 1, mailboxes |-> made.mailboxes + 1,
                           tasks |-> made.tasks + 1]]_vars

\* an id was spawned, spawned again while registered, and a second id was
\* spawned: two actors, two mailboxes, two tasks for three calls
C19_Witness ==
    /\ Len(actorOfCalls) = 3
    /\ \E i \in 1..3 : actorOfCalls[i].existed
    /\ made = [actors |-> 2, mailboxes |-> 2, tasks |-> 2]
    /\ Cardinality({id \in ActorIds : actors[id] # NoInstance}) = 2

\* the behaviour in force after the i-th invocation
InForceAfter(i) ==
    IF sfLog[i].swap = "become" THEN "working_state"
    ELSE IF sfLog[i].swap = "unbecome" THEN "receive"
    ELSE sfLog[i].by

\* C20: behaviour swap.  The first message is handled by the declared
\* receive; a message dequeued after an invocation that called become(f) is
\* handled by f, after one that called unbecome() by the declared receive,
\* otherwise by the function that handled the one before it.  The messages
\* handled, followed by those waiting in the mailbox and those still being
\* delivered, are the messages told, in tell order.
C20_BehaviourSwap ==
    /\ \A i \in 1..Len(sfLog) :
          sfLog[i].by = IF i = 1 THEN "receive" ELSE InForceAfter(i - 1)
    /\ \A i \in 1..Len(sfLog) :
          sfLog[i].swap = IF sfLog[i].by = "receive" /\ sfLog[i].msg.type = "Ping" THEN "become"
                          ELSE IF sfLog[i].by = "working_state" /\ sfLog[i].msg.type = "Pong"
                          THEN "unbecome" ELSE "none"
    /\ [i \in 1..Len(sfLog) |-> sfLog[i].msg] \o sfBox \o sfReady = sfTold
    /\ stateful.behavior = IF sfLog = <<>> THEN "receive" ELSE InForceAfter(Len(sfLog))

\* a Ping was handled by receive and the next message by working_state, a
\* Pong by working_state and the next message by receive
C20_Witness ==
    /\ Len(sfLog) = 4
    /\ sfLog[1].swap = "become" /\ sfLog[2].by = "working_state"
    /\ sfLog[3].swap = "unbecome" /\ sfLog[4].by = "receive"

\* C21: local write visibility.  On a replica reached by local puts and
\* deletes and by merges of other replicas' deltas and snapshots, the get
\* that follows a local put(k, v) returns v and the get that follows a
\* local delete(k) returns null.
C21_LocalWriteVisible ==
    lastOp.n > 0 =>
        lastOp.got = IF lastOp.type = "put" THEN lastOp.value ELSE None

\* a put on a replica that held a tombstone of another replica for the key,
\* merged from a delta or a snapshot, and no data entry
C21_Witness ==
    /\ lastOp.type = "put"
    /\ lastOp.key \in DOMAIN lastOp.before.tombstones
    /\ lastOp.before.tombstones[lastOp.key].replica_id > lastOp.r
    /\ lastOp.got = lastOp.value
    /\ \E s \in lsnaps : lastOp.key \in DOMAIN s.tombstones

\* the puts and deletes of key k a replica has issued or merged
PutsOf(r, k) == {d \in observed[r] : d.type = "put" /\ d.key = k}

DeletesOf(r, k) == {d \in observed[r] : d.type = "delete" /\ d.key = k}

\* timestamp a is after b: later logical time, or the same time and the greater
\* replica id
Newer(a, b) ==
    \/ a.logical_time > b.logical_time
    \/ a.logical_time = b.logical_time /\ a.replica_id > b.replica_id

\* C22: causal delete.  A replica that has merged a put of k and a delete
\* of k with a greater timestamp, in either order, and no put of k newer
\* than the delete, returns null for get(k).
C22_CausalDelete ==
    \A r \in ReplicaIds : \A k \in Keys :
        \A p \in PutsOf(r, k) : \A d \in DeletesOf(r, k) :
            (/\ p.ts.replica_id # r /\ d.ts.replica_id # r
             /\ Newer(d.ts, p.ts)
             /\ \A q \in PutsOf(r, k) : Newer(d.ts, q.ts))
            => LwwGet(replicas[r], k) = None

\* a third replica merged the delete first and the older put after it: it
\* holds the put's entry under the tombstone
C22_Witness ==
    \E r \in ReplicaIds : \E k \in Keys :
        \E p \in PutsOf(r, k) : \E d \in DeletesOf(r, k) :
            /\ p.ts.replica_id # r /\ d.ts.replica_id # r
            /\ p.ts.replica_id # d.ts.replica_id
            /\ Newer(d.ts, p.ts)
            /\ k \in DOMAIN replicas[r].data
            /\ k \in DOMAIN replicas[r].tombstones

\* C23: put tie-break.  For two puts of a key with the same logical time
\* from different replicas, a replica that has merged both (in either
\* order) and nothing newer for the key holds the value of the put with the
\* greater replica id.
C23_PutTieBreak ==
    \A r \in ReplicaIds : \A k \in Keys :
        \A p1 \in PutsOf(r, k) : \A p2 \in PutsOf(r, k) :
            (/\ p1.ts.logical_time = p2.ts.logical_time
             /\ p1.ts.replica_id < p2.ts.replica_id
             /\ \A d \in observed[r] : d.key = k => (d.ts = p2.ts \/ Newer(p2.ts, d.ts)))
            => LwwGet(replicas[r], k) = p2.value

\* a third replica merged the put of the greater replica id first and the
\* tied put of the smaller one, with another value, after it
C23_Witness ==
    \E r \in ReplicaIds : \E k \in Keys :
        \E p1 \in PutsOf(r, k) : \E p2 \in PutsOf(r, k) :
            /\ p1.ts.logical_time = p2.ts.logical_time
            /\ p1.ts.replica_id < p2.ts.replica_id
            /\ p1.value # p2.value
            /\ p1.ts.replica_id # r /\ p2.ts.replica_id # r
            /\ merges[r] = 2
            /\ replicas[r].clock = 3

\* C35: delete wins at equal logical time.  For a put and a delete of a key
\* issued at the same logical time on two replicas, whatever their replica
\* ids, a replica that has merged both, in either order, and no put of the
\* key with a later logical time, returns null for get(k).
C35_DeleteWinsTie ==
    \A r \in ReplicaIds : \A k \in Keys :
        \A p \in PutsOf(r, k) : \A d \in DeletesOf(r, k) :
            (/\ p.ts.replica_id # r /\ d.ts.replica_id # r
             /\ p.ts.replica_id # d.ts.replica_id
             /\ p.ts.logical_time = d.ts.logical_time
             /\ \A q \in PutsOf(r, k) : q.ts.logical_time <= d.ts.logical_time)
            => LwwGet(replicas[r], k) = None

---------------------------------------------------------------------------
\* C24: PNCounter.merge is idempotent, commutative and associative on the P
\* and N maps, and no entry of P or N ever decreases under increment,
\* decrement or merge.
PN(c) == <<c.P, c.N>>

C24_Laws ==
    \A r \in PnReplicas : \A s \in pnsnaps : \A t \in pnsnaps :
        /\ PN(PnMerge(PnMerge(pn[r], s), s)) = PN(PnMerge(pn[r], s))
        /\ PN(PnMerge(PnMerge(pn[r], s), t)) = PN(PnMerge(PnMerge(pn[r], t), s))
        /\ PN(PnMerge(PnMerge(pn[r], s), t)) = PN(PnMerge(pn[r], PnMerge(s, t)))
        /\ PN(PnMerge(s, t)) = PN(PnMerge(t, s))

C24_NoDecrease ==
    \A r \in PnReplicas :
        /\ \A rid \in DOMAIN pn[r].P :
              rid \in DOMAIN pn'[r].P /\ pn'[r].P[rid] >= pn[r].P[rid]
        /\ \A rid \in DOMAIN pn[r].N :
              rid \in DOMAIN pn'[r].N /\ pn'[r].N[rid] >= pn[r].N[rid]

C24_MergeLaws == [](C24_Laws) /\ [][C24_NoDecrease]_vars

\* a replica holds a positive count merged from another replica while two
\* snapshots disagree on an entry and a third distinct snapshot exists
C24_Witness ==
    /\ \E r \in PnReplicas : \E q \in DOMAIN pn[r].P \ {r} :
          pn[r].P[q] > 0
    /\ \E s \in pnsnaps : \E t \in pnsnaps : \E u \in pnsnaps :
          /\ s # t /\ t # u /\ s # u
          /\ \E rid \in DOMAIN s.P \cap DOMAIN t.P : s.P[rid] < t.P[rid]
          /\ \E rid \in DOMAIN u.N : u.N[rid] > 0

\* C25: once every replica has merged every other replica's latest snapshot,
\* all replicas report value() = total increments - total decrements.
FullyExchanged ==
    \A r \in PnReplicas : \A q \in PnReplicas \ {r} :
        heard[r][q] = <<incs[q], decs[q]>>

C25_ValueAfterExchange ==
    FullyExchanged =>
        \A r \in PnReplicas : PnValue(pn[r]) = SumValues(incs) - SumValues(decs)

C25_Witness ==
    /\ FullyExchanged
    /\ \E r \in PnReplicas : \E q \in PnReplicas \ {r} : incs[r] > 0 /\ decs[q] > 0
    /\ \A r \in PnReplicas : PnValue(pn[r]) = SumValues(incs) - SumValues(decs)

---------------------------------------------------------------------------
\* C26: the reporter has sent no message to any actor; global_round is the
\* maximum round observed and total_gossips the number of GossipState
\* messages received.
MaxSeen(S) == IF S = {} THEN 0 ELSE CHOOSE x \in S : \A y \in S : y <= x

C26_PassiveObserver ==
    /\ repOut = <<>>
    /\ global_round = MaxSeen(repRounds)
    /\ total_gossips = repGossips

\* with an evaluator configured, the monitoring loop has reported at a round
\* that is a multiple of eval_interval, after gossip and a health ack arrived
C26_Witness ==
    /\ evaluator_cfg # None
    /\ reports > 0
    /\ global_round > 0 /\ global_round % EvalInterval = 0
    /\ total_gossips > 1
    /\ \E p \in DOMAIN peer_status : "status" \in DOMAIN peer_status[p]
    /\ monitor_task = "cancelled"

---------------------------------------------------------------------------
\* C27: round sequencing.  Round k+1 is started only after the
\* AggregatedResult of round k was installed (an EvaluationResult is what
\* starts it), and current_round never exceeds num_rounds.
Installed(k) == \E i \in 1..Len(prov.history) : prov.history[i] = k

C27_RoundSequencing ==
    /\ \A k \in 1..(prov.current_round - 1) : Installed(k)
    /\ prov.current_round <= NumRounds

\* C28: no-evaluator progress.  A step that installs the AggregatedResult of
\* the current round while no evaluator is registered proceeds at once to the
\* next round, or to completion after the last round.
C28_NoEvaluatorProceeds ==
    [][(Len(prov'.history) = Len(prov.history) + 1 /\ ~prov.evaluator_ref) =>
          \/ prov'.current_round = prov.current_round + 1
          \/ prov'.training_complete]_vars

\* C29: a message parked for an absent aggregator (evaluator) is sent to it
\* by the step that handles its next registration and is parked no longer;
\* under fair delivery the round whose AggregateRound was parked is installed
\* and the round whose broadcast was parked is left for the next one.
ParkedAggregate(k) ==
    ~prov.aggregator_ref /\ prov.pending_aggregate.type = "AggregateRound"
                         /\ prov.pending_aggregate.round = k

ParkedBroadcast(k) ==
    ~prov.evaluator_ref /\ prov.pending_eval_broadcast.type = "GlobalModelBroadcast"
                        /\ prov.pending_eval_broadcast.round = k

C29_FlushStep ==
    /\ (prov.pending_aggregate # NoMsg /\ ~prov.aggregator_ref /\ prov'.aggregator_ref) =>
           /\ toAgg' = Append(toAgg, prov.pending_aggregate)
           /\ prov'.pending_aggregate = NoMsg
    /\ (prov.pending_eval_broadcast # NoMsg /\ ~prov.evaluator_ref /\ prov'.evaluator_ref) =>
           /\ toEval' = Append(toEval, prov.pending_eval_broadcast)
           /\ prov'.pending_eval_broadcast = NoMsg

C29_ParkedFlushed ==
    /\ [][C29_FlushStep]_vars
    /\ \A k \in 1..NumRounds :
          /\ ParkedAggregate(k) ~> Installed(k)
          /\ ParkedBroadcast(k) ~> (prov.current_round > k \/ prov.training_complete)

\* round 1: the AggregateRound was parked and flushed (it was forwarded, yet
\* _awaiting_aggregation is unset), its result is installed, and the broadcast
\* was parked and flushed (it is on its way while nothing is pending)
C29_Witness ==
    /\ prov.current_round = 1 /\ Installed(1)
    /\ Len(forwarded) = 1 /\ ~prov.awaiting_aggregation
    /\ prov.evaluator_ref /\ prov.pending_eval_broadcast = NoMsg
    /\ toEval = <<GlobalModelBroadcast(1)>>

---------------------------------------------------------------------------
\* C30: coordinator failure detection.  Every iteration of the health loop
\* tells a HealthPing to each registered role and starts the timeout of that
\* ping (the steps without which no ref is ever cleared).
C30_FailureDetection ==
    [][hiters' = hiters + 1 =>
         \A r \in Roles : href[r] =>
             /\ hpings'[r] = hpings[r] + 1
             /\ [target |-> r, sent_at |-> hnow] \in htasks']_vars

---------------------------------------------------------------------------
\* C31: unregistered workers.  Every update among the round's updates, and
\* every update of an AggregateRound that was forwarded, comes from a worker
\* that is a key of the coordinator's worker map.
C31_OnlyRegisteredUpdates ==
    /\ \A i \in 1..Len(prov.round_weight_updates) :
           prov.round_weight_updates[i].from \in prov.workers
    /\ \A j \in 1..Len(forwarded) : \A i \in 1..Len(forwarded[j].updates) :
           forwarded[j].updates[i].from \in prov.workers

---------------------------------------------------------------------------
\* C32: remote FIFO per ref.  The remote target actor processes the messages
\* told through one remote ref in the order of the tell() calls.
C32_RemoteFifo ==
    \A i \in 1..Len(rhandled) : \A j \in 1..Len(rhandled) :
        i < j => rhandled[i].id < rhandled[j].id

---------------------------------------------------------------------------
\* C33: behaviour failure.  An exception of the behaviour does not leave the
\* receive loop; with a parent, exactly one ChildFailed{child_id, error} per
\* raising message is told to it (none without a parent); and after a
\* raising message the loop is running, so it takes the messages queued
\* after it.
Raising == SelectSeq(fdone, LAMBDA m : m.kind = "raise")

C33_BehaviourFailure ==
    /\ \A i \in 1..Len(fescaped) : fescaped[i] = "pre_start"
    /\ Len(ptold) = IF fparent THEN Len(Raising) ELSE 0
    /\ \A i \in 1..Len(ptold) :
          ptold[i] = [type |-> "ChildFailed", child_id |-> "child", error |-> Raising[i].id]
    /\ (fdone # <<>> /\ fdone[Len(fdone)].kind = "raise") => fpc = "running"
    /\ \A i \in 1..Len(fdone) : fdone[i].id = i

\* an actor with a parent raised on its first message and has processed the
\* message queued after it
C33_Witness ==
    /\ fparent
    /\ Len(fdone) >= 2 /\ fdone[1].kind = "raise" /\ fdone[2].kind = "ok"
    /\ Len(ptold) = 1

\* C34: init failure.  When pre_start raises, a ChildFailed{child_id} is told
\* to the actor's parent.
C34_InitFailure ==
    (fparent /\ fescaped # <<>>) =>
        \E i \in 1..Len(ptold) : ptold[i].type = "ChildFailed" /\ ptold[i].child_id = "child"

---------------------------------------------------------------------------
\* the lww deltas whose payload has its type and all its fields
WellFormed(delta) ==
    /\ Has(delta, "type") /\ delta.type = "lww"
    /\ (delta.data = PutOk \/ delta.data = DeleteOk \/ delta.data = SnapOk)

\* the map after the well-formed deltas of a message alone were merged, in
\* their order
RECURSIVE MergeWellFormed(_, _)
MergeWellFormed(m, ds) ==
    IF ds = <<>> THEN m
    ELSE LET delta == Head(ds)
             m1 == IF ~WellFormed(delta) THEN m
                   ELSE IF delta.data = SnapOk THEN MergeState(m, SnapOk)
                   ELSE LwwMerge(m, delta.data)
         IN MergeWellFormed(m1, Tail(ds))

\* C36: malformed deltas are skipped.  Handling a GossipState raises no
\* error; the malformed deltas leave data and tombstones as they were (and
\* the clock too when no delta of the message is well formed), and the
\* well-formed deltas and the peer_info of the message are processed.
C36_MalformedSkipped ==
    mhandled > 0 =>
        /\ ~mlast.raised
        /\ mlast.msg.peer_info \subseteq mknown
        /\ mmap.data = MergeWellFormed(mlast.map, mlast.msg.crdt_deltas).data
        /\ mmap.tombstones = MergeWellFormed(mlast.map, mlast.msg.crdt_deltas).tombstones
        /\ (\A i \in DOMAIN mlast.msg.crdt_deltas :
                /\ ~WellFormed(mlast.msg.crdt_deltas[i])
                /\ mlast.msg.crdt_deltas[i] # LwwDelta(11)
                /\ mlast.msg.crdt_deltas[i] # LwwDelta(12))
           => mmap.clock = mlast.map.clock

---------------------------------------------------------------------------
\* the logical times a replica stores: of its data entries and tombstones
StoredTimes(m) ==
    {m.data[k].ts.logical_time : k \in DOMAIN m.data}
        \cup {m.tombstones[k].logical_time : k \in DOMAIN m.tombstones}

\* no stored timestamp is ahead of the clock, so the next local operation,
\* stamped clock + 1, is after all of them
C37_ClockAhead ==
    \A r \in LwwReplicas : \A t \in StoredTimes(lmap[r]) : t <= lmap[r].clock

C37_ClockStep ==
    /\ \A r \in LwwReplicas : lmap'[r].clock >= lmap[r].clock
    /\ lastOp'.n # lastOp.n =>
        /\ lmap'[lastOp'.r].clock = lmap[lastOp'.r].clock + 1
        /\ \E d \in lpub' :
            /\ d.type = lastOp'.type /\ d.key = lastOp'.key
            /\ d.ts = Timestamp(lastOp'.r, lmap'[lastOp'.r].clock)
            /\ \A t \in StoredTimes(lmap[lastOp'.r]) : d.ts.logical_time > t
    /\ lmerges' # lmerges =>
        \E r \in LwwReplicas :
            /\ \A q \in LwwReplicas \ {r} : lmap'[q] = lmap[q]
            /\ \/ \E d \in lpub : lmap'[r].clock = Max2(lmap[r].clock, d.ts.logical_time) + 1
               \/ \E s \in lsnaps : lmap'[r].clock = Max2(lmap[r].clock, s.clock) + 1

\* C37: logical clock.  A replica's clock never decreases; a local put or
\* delete increments it by exactly 1 and stamps the operation with the new
\* value; a merge sets it to max(local, remote time) + 1; so a local
\* operation carries a logical time greater than every timestamp the replica
\* has merged or stored.
C37_LogicalClock == [](C37_ClockAhead) /\ [][C37_ClockStep]_vars

\* a replica issued a local operation after merges had put its clock at
\* least two ahead of the number of its own operations
C37_Witness ==
    /\ lastOp.n = 1
    /\ lmerges > 0
    /\ lastOp.before.clock >= 2
    /\ lmap[lastOp.r].clock = lastOp.before.clock + 1

---------------------------------------------------------------------------
\* C38: ask.  ask(msg, timeout) stores a pending slot under msg.id before it
\* sends msg; the call completes with the reply when the recipient's reply
\* echoing the id arrives before the timeout, so a call that ended in a
\* timeout is one whose reply had not arrived.
C38_Ask ==
    /\ \A i \in DOMAIN askTasks : askTasks[i].type = "Request" => askTasks[i].id \in DOMAIN pending_asks
    /\ \A id \in AskIds : askCalls[id].state = "timeout" => ~askCalls[id].replied

---------------------------------------------------------------------------
\* C39: teardown races.  Under any interleaving of stops, respawns and
\* shutdown, post_stop of an instance is invoked at most once, no teardown
\* raises, a teardown removes only the entries of the instance it was begun
\* for, and at most one actor task runs under the id.
C39_TeardownRaces ==
    /\ \A k \in Instances : rpost[k] <= 1
    /\ \A t \in DOMAIN rstops : rstops[t].pc # "raised"
    /\ \A i \in DOMAIN rremoved : rremoved[i].removed = rremoved[i].captured
    /\ Cardinality(rlive) <= 1

---------------------------------------------------------------------------
\* replica a after merge_state of the snapshot of replica b
Pull(a, b) == MergeState(a, ToDict(b))

SameGets(a, b) == \A k \in Keys : LwwGet(a, k) = LwwGet(b, k)

\* merging once more the snapshot that led to m changes nothing but the clock
MergedAgain(m, again) ==
    /\ again.data = m.data
    /\ again.tombstones = m.tombstones
    /\ again.clock > m.clock
    /\ SameGets(again, m)

\* the outcomes of an exchange of snapshots between replicas in states a and
\* b: both snapshots taken before either merge, or the second one taken
\* after the first merge; then the same merges once more
Converges(a, b) ==
    LET a1 == Pull(a, b)
        b1 == Pull(b, a)
        a2 == Pull(a, b1)
        b2 == Pull(b, a1)
    IN /\ SameGets(a1, b1) /\ SameGets(a1, b2) /\ SameGets(a2, b1)
       /\ MergedAgain(a1, Pull(a1, b)) /\ MergedAgain(b1, Pull(b1, a))
       /\ MergedAgain(a2, Pull(a2, b1)) /\ MergedAgain(b2, Pull(b2, a1))
       /\ SameGets(Pull(a1, b), Pull(b1, a))

\* C40: snapshot merge convergence.  From any reachable states of two
\* replicas, once each has applied merge_state to the other's to_dict()
\* snapshot, in either order and possibly again, both return the same
\* get(k) for every key; merging a snapshot that was merged already changes
\* neither data nor tombstones nor any get, only the clock advances.
C40_SnapshotConvergence ==
    \A r \in LwwReplicas : \A q \in LwwReplicas :
        r < q => Converges(lmap[r], lmap[q])

\* the replicas disagree on a key, one holding a put hidden by its own
\* delete and the other a later put, and each has merged something of the
\* other before
C40_Witness ==
    \E r \in LwwReplicas : \E q \in LwwReplicas \ {r} : \E k \in Keys :
        /\ LwwGet(lmap[r], k) = None
        /\ k \in DOMAIN lmap[r].data /\ k \in DOMAIN lmap[r].tombstones
        /\ LwwGet(lmap[q], k) # None
        /\ lmerges >= 1
        /\ ~SameGets(lmap[r], lmap[q])
        /\ SameGets(Pull(lmap[r], lmap[q]), Pull(lmap[q], lmap[r]))

=============================================================================
